---- MODULE Spec2Model ----
(***************************************************************************)
(* A model of the ai-todo backend: the task store with completion order    *)
(* and the metric contribution ledger (services/task_service.py), the goal *)
(* tree (routers/goals.py), the one-off ledger repair script               *)
(* (scripts/fix_metric_contributions.py) and the recommendation provider   *)
(* chain with its deterministic fallbacks                                  *)
(* (services/ai_recommender_service.py, routers/ai_recommender.py).        *)
(*                                                                         *)
(* Conventions.  SQL NULL / Python None is NULL (0) for ids, for           *)
(* completion_order and for completion_time (ids and orders start at 1),   *)
(* and NoValue for the float column contribution_value, whose legal value  *)
(* 0.0 must stay distinct from None.  Floats are modelled by integers.     *)
(* Timestamps are modelled by NULL / Now: the code only tests them for     *)
(* truthiness.  A ledger entry is {value, task_id}; its timestamp field is *)
(* written but never read by the code.                                     *)
(***************************************************************************)
EXTENDS Integers, Sequences, FiniteSets, TLC

\* ------------------------------------------------------------------ bounds
MaxTasks == 2
MaxOrder == 3
MaxLedger == 2
MaxOps == 5
MaxGoals == 3
MaxCands == 2
MaxReminders == 2

\* --------------------------------------------------------------- constants
NULL == 0
Now == 1
PRIORITY_HIGH == 1
PRIORITY_MEDIUM == 2
PRIORITY_LOW == 3
NoValue == 0 - 1
Users == {1, 2}
RouterUser == 1
MetricIds == {1, 2}
Values == {0, 1, 2}
TaskIds == 1..MaxTasks
GoalIds == 1..MaxGoals

VARIABLES tasks, taskSeq, metrics, metricSeq, goals, goalSeq, owned,
          maxAssigned, last, http, ops, rq, reminders, inflight

vars == <<tasks, taskSeq, metrics, metricSeq, goals, goalSeq, owned,
          maxAssigned, last, http, ops, rq, reminders, inflight>>

\* ------------------------------------------------------------- JSON ledger
\* Metric.contributions_list is a JSON column.  A fresh row holds the server
\* default '[]', which the column type hands back as the Python list []
\* (kind "list"); update_task writes json.dumps(...) text into it, which comes
\* back as a str (kind "str").
EmptyList == [kind |-> "list", items |-> <<>>]

JsonDumps(items) == [kind |-> "str", items |-> items]

\* json.loads(metric.contributions_list or '[]'): an empty list or None is
\* falsy and is replaced by '[]'; a str is parsed; a non-empty list makes
\* json.loads raise TypeError, which `except json.JSONDecodeError` lets through.
JsonLoadsRaises(cl) == cl.kind = "list" /\ cl.items # <<>>

JsonLoads(cl) == IF cl.kind = "str" THEN cl.items ELSE <<>>

\* Ledger data that update_task did not write: None (kind "null"), a str
\* that is not JSON (kind "invalid": json.loads raises JSONDecodeError, which
\* is caught), a str that holds a JSON object (kind "object": json.loads
\* returns a dict, and contributions.append, or c.get on its keys, raises
\* AttributeError), and a list with entries, visited by json.loads as above.
OldEntry == [value |-> 1, task_id |-> NULL]

MalformedLedgers ==
    {[kind |-> "null", items |-> <<>>],
     [kind |-> "invalid", items |-> <<>>],
     [kind |-> "object", items |-> <<>>],
     [kind |-> "list", items |-> <<OldEntry>>]}

NotAList(cl) == cl.kind = "object"

RECURSIVE SumValues(_)
SumValues(s) == IF s = <<>> THEN 0 ELSE Head(s).value + SumValues(Tail(s))

RECURSIVE DropTask(_, _)
DropTask(s, id) ==
    IF s = <<>> THEN <<>>
    ELSE IF Head(s).task_id = id THEN DropTask(Tail(s), id)
         ELSE <<Head(s)>> \o DropTask(Tail(s), id)

\* ------------------------------------------------------------------- store
NoTask == [exists |-> FALSE, user_id |-> NULL, completed |-> FALSE,
           completion_time |-> NULL, completion_order |-> NULL,
           metric_id |-> NULL, contribution_value |-> NoValue,
           goal_id |-> NULL, has_reminders |-> FALSE]

NoGoal == [exists |-> FALSE, user_id |-> NULL, parent_id |-> NULL]

\* A metric row with its column defaults; goal_id is NULL for a row whose
\* goal is outside the model.
NewMetric == [exists |-> TRUE, goal_id |-> NULL, current_value |-> 0,
              contributions_list |-> EmptyList]

NoMetric == [NewMetric EXCEPT !.exists = FALSE]

\* A reminder row; task_id is NULL for a reminder of no task.
ReminderIds == 1..MaxReminders

NoReminder == [exists |-> FALSE, task_id |-> NULL]

NoReminders == [r \in ReminderIds |-> NoReminder]

\* The requests that have read from the store and not yet committed.
Requests == {1, 2}

Idle == [pc |-> "idle"]

NoneInFlight == [r \in Requests |-> Idle]

Response(op, status) == [op |-> op, status |-> status]

\* What a router sends to the client: `last` is the outcome of the handler's
\* work (a return or the status of the HTTPException raised), `http` the
\* response that leaves the router, with the parts of the body the model keeps.
Reply(op, req, status, body) ==
    [op |-> op, req |-> req, status |-> status, body |-> body]

NoBody == <<>>

NoReply == Reply("init", <<>>, 200, NoBody)

\* The other entities a goal owns.  owned[k] holds the goals that have a
\* child of kind k ("phase": the goal's situation has phases).
ChildKinds == {"note", "situation", "phase", "conversation"}

InitTables ==
    /\ tasks = [t \in TaskIds |-> NoTask]
    /\ taskSeq = 0
    /\ metrics = [m \in MetricIds |-> NewMetric]
    /\ metricSeq = Cardinality(MetricIds)
    /\ owned = [k \in ChildKinds |-> {}]
    /\ goals = [g \in GoalIds |-> NoGoal]
    /\ goalSeq = 0
    /\ maxAssigned = [u \in Users |-> 0]
    /\ last = Response("init", 200)
    /\ http = NoReply
    /\ ops = 0
    /\ reminders = NoReminders
    /\ inflight = NoneInFlight

\* No recommendation request is in progress.
NoRequest == [pc |-> "idle"]

InitStore == InitTables /\ rq = NoRequest

\* ------------------------------------------------------------- create_task
CreateTask(u) ==
    /\ taskSeq < MaxTasks
    /\ taskSeq' = taskSeq + 1
    /\ tasks' = [tasks EXCEPT ![taskSeq + 1] =
                    [NoTask EXCEPT !.exists = TRUE, !.user_id = u]]
    /\ last' = Response("create_task", 200)
    /\ UNCHANGED <<metrics, maxAssigned>>

\* ---------------------------------------------------------------- get_task
TaskFound(id, u) == tasks[id].exists /\ tasks[id].user_id = u

\* --------------------------------------------------------------- get_tasks
\* filter(Task.user_id == user_id, Task.parent_id.is_(None)); a row is sent
\* with its id and user_id
GetTasksBody(u) ==
    {[id |-> t, user_id |-> tasks[t].user_id] :
        t \in {x \in TaskIds : tasks[x].exists /\ tasks[x].user_id = u}}

GetTasks(u) ==
    /\ last' = Response("get_tasks", 200)
    /\ UNCHANGED <<tasks, taskSeq, metrics, maxAssigned>>

GetTask(u, id) ==
    /\ last' = Response("get_task", IF TaskFound(id, u) THEN 200 ELSE 404)
    /\ UNCHANGED <<tasks, taskSeq, metrics, maxAssigned>>

\* ------------------------------------------------------------- update_task
\* A TaskUpdate body after model_dump(exclude_unset=True): every field is
\* either absent ("unset" / Unset) or carries a value, None included.
Unset == 0 - 2
CompletedInputs == {"unset", "true", "false", "null"}
MetricIdInputs == {Unset, NULL} \cup MetricIds
ValueInputs == {Unset, NoValue} \cup Values

\* for field, value in update_data.items(): setattr(db_task, field, value)
ApplyFields(t, c, mid, cv) ==
    [t EXCEPT !.completed = IF c = "true" THEN TRUE
                            ELSE IF c = "false" THEN FALSE ELSE @,
              !.metric_id = IF mid = Unset THEN @ ELSE mid,
              !.contribution_value = IF cv = Unset THEN @ ELSE cv]

\* last_completed = query(Task).filter(user_id, completion_order not None)
\*                  .order_by(completion_order.desc()).first()
Held(u) == {tasks[t].completion_order :
               t \in {x \in TaskIds : /\ tasks[x].exists
                                      /\ tasks[x].user_id = u
                                      /\ tasks[x].completion_order # NULL}}

MaxOf(S) == CHOOSE x \in S : \A y \in S : y <= x

NextOrderBug(u) == IF Held(u) = {} THEN 1 ELSE MaxOf(Held(u))

NextOrder(u) == IF Held(u) = {} THEN 1 ELSE MaxOf(Held(u)) + 1

\* if db_task.metric_id and db_task.contribution_value:
Contributes(t) ==
    /\ t.metric_id # NULL
    /\ t.contribution_value # NoValue
    /\ t.contribution_value # 0

RecordedNoSum(m, id, v) ==
    LET c == Append(JsonLoads(m.contributions_list), [value |-> v, task_id |-> id])
    IN [m EXCEPT !.contributions_list = JsonDumps(c)]

\* contributions.append({...}); dumps; current_value = sum(...)
Recorded(m, id, v) ==
    LET c == Append(JsonLoads(m.contributions_list), [value |-> v, task_id |-> id])
    IN [m EXCEPT !.current_value = SumValues(c),
                 !.contributions_list = JsonDumps(c)]

NotRemoved(m, id) == m

\* contributions = [c for c in contributions if c.get("task_id") != task_id]
Removed(m, id) ==
    LET c == DropTask(JsonLoads(m.contributions_list), id)
    IN [m EXCEPT !.current_value = SumValues(c),
                 !.contributions_list = JsonDumps(c)]

\* metric = db.query(Metric).filter(Metric.id == db_task.metric_id).first()
\* if metric:
Credits(t) == Contributes(t) /\ metrics[t.metric_id].exists

CompletingAgain(c, t) == c = "true"

\* if update_data.get('completed') is True and not db_task.completion_time:
Completing(c, t) == c = "true" /\ t.completion_time = NULL

\* elif update_data.get('completed') is False and db_task.completion_time:
Uncompleting(c, t) == c = "false" /\ t.completion_time # NULL

UpdateTask(u, id, c, mid, cv) ==
    LET t1 == ApplyFields(tasks[id], c, mid, cv)
        m == metrics[t1.metric_id]
    IN
    IF ~TaskFound(id, u)
    THEN \* get_task raises 404
         /\ last' = Response("update_task", 404)
         /\ UNCHANGED <<tasks, taskSeq, metrics, maxAssigned>>
    ELSE IF \/ c = "null"
            \/ t1.metric_id # NULL /\ ~metrics[t1.metric_id].exists
            \/ /\ Completing(c, t1) \/ Uncompleting(c, t1)
               /\ Credits(t1)
               /\ \/ JsonLoadsRaises(m.contributions_list)
                  \/ NotAList(m.contributions_list)
    THEN \* completed=None violates NOT NULL and an unknown metric_id the
         \* foreign key at commit; TypeError from json.loads, AttributeError
         \* from a dict: the request fails before anything is committed
         /\ last' = Response("update_task", 500)
         /\ UNCHANGED <<tasks, taskSeq, metrics, maxAssigned>>
    ELSE IF Completing(c, t1)
    THEN /\ NextOrder(u) <= MaxOrder
         /\ IF Credits(t1)
            THEN /\ Len(JsonLoads(m.contributions_list)) < MaxLedger
                 /\ metrics' = [metrics EXCEPT ![t1.metric_id] =
                                   Recorded(m, id, t1.contribution_value)]
            ELSE UNCHANGED metrics
         /\ tasks' = [tasks EXCEPT ![id] =
                         [t1 EXCEPT !.completion_time = Now,
                                    !.completion_order = NextOrder(u)]]
         /\ maxAssigned' = [maxAssigned EXCEPT ![u] =
                               IF NextOrder(u) > @ THEN NextOrder(u) ELSE @]
         /\ last' = Response("update_task", 200)
         /\ UNCHANGED taskSeq
    ELSE IF Uncompleting(c, t1)
    THEN /\ IF Credits(t1)
            THEN metrics' = [metrics EXCEPT ![t1.metric_id] = Removed(m, id)]
            ELSE UNCHANGED metrics
         /\ tasks' = [tasks EXCEPT ![id] =
                         [t1 EXCEPT !.completion_time = NULL,
                                    !.completion_order = NULL]]
         /\ last' = Response("update_task", 200)
         /\ UNCHANGED <<taskSeq, maxAssigned>>
    ELSE /\ tasks' = [tasks EXCEPT ![id] = t1]
         /\ last' = Response("update_task", 200)
         /\ UNCHANGED <<taskSeq, metrics, maxAssigned>>

\* ------------------------------------------------------------- delete_task
DeleteTask(u, id) ==
    IF ~TaskFound(id, u)
    THEN /\ last' = Response("delete_task", 404)
         /\ UNCHANGED <<tasks, taskSeq, metrics, maxAssigned>>
    ELSE /\ tasks' = [tasks EXCEPT ![id] = NoTask]
         /\ last' = Response("delete_task", 200)
         /\ UNCHANGED <<taskSeq, metrics, maxAssigned>>

\* --------------------------------------------------- specification: orders
\* The task service called for two users, with bodies that carry `completed`.
NextOrders ==
    /\ UNCHANGED <<ops, goals, goalSeq, metricSeq, owned, http, rq, reminders, inflight>>
    /\ \/ \E u \in Users : CreateTask(u)
       \/ \E u \in Users, id \in TaskIds, c \in CompletedInputs :
             UpdateTask(u, id, c, Unset, Unset)
       \/ \E u \in Users, id \in TaskIds : DeleteTask(u, id)

SpecOrders == InitStore /\ [][NextOrders]_vars

\* --------------------------------------------------- specification: ledger
\* The tasks router: every request runs as user_id=1, with bodies that carry
\* any of completed, metric_id and contribution_value.  Runs are explored up
\* to MaxOps requests.
LedgerStep ==
    \/ CreateTask(RouterUser)
    \/ \E id \in TaskIds, c \in CompletedInputs, mid \in MetricIdInputs,
          cv \in ValueInputs : UpdateTask(RouterUser, id, c, mid, cv)
    \/ \E id \in TaskIds : DeleteTask(RouterUser, id)

NextLedger ==
    /\ ops < MaxOps
    /\ ops' = ops + 1
    /\ UNCHANGED <<goals, goalSeq, metricSeq, owned, http, rq, reminders, inflight>>
    /\ LedgerStep

SpecLedger == InitStore /\ [][NextLedger]_vars

\* ------------------------------------------------- update_task, by statement
\* update_task as the statements it sends to the database.  Two requests, each
\* with a session of its own, run it at the same time; the sessions do not
\* autoflush and the code takes no lock, so a request reads what is committed
\* and its own changes reach the database at its commit.  inflight[r] holds
\* what request r has read so far: the row as loaded (orig), the row with the
\* request's changes (row) and, once read, the metric with its new ledger.

\* db_task = await get_task(...); setattr(db_task, field, value)
BeginUpdate(r, id, c) ==
    LET t1 == ApplyFields(tasks[id], c, Unset, Unset)
    IN /\ inflight[r] = Idle
       /\ UNCHANGED <<tasks, taskSeq, metrics, maxAssigned>>
       /\ IF ~TaskFound(id, RouterUser)
          THEN /\ last' = Response("update_task", 404)
               /\ UNCHANGED inflight
          ELSE /\ last' = last
               /\ inflight' =
                     [inflight EXCEPT ![r] =
                         [pc |-> IF Completing(c, t1) THEN "fetched"
                                 ELSE IF Uncompleting(c, t1) THEN "ordered"
                                 ELSE "ready",
                          id |-> id,
                          orig |-> tasks[id],
                          row |-> IF Uncompleting(c, t1)
                                  THEN [t1 EXCEPT !.completion_time = NULL,
                                                  !.completion_order = NULL]
                                  ELSE t1,
                          adds |-> Completing(c, t1),
                          metric |-> NoMetric]]

\* last_completed = db.query(Task)...first(); db_task.completion_order = ...
ReadOrder(r) ==
    /\ inflight[r].pc = "fetched"
    /\ NextOrder(RouterUser) <= MaxOrder
    /\ inflight' = [inflight EXCEPT
                       ![r].pc = "ordered",
                       ![r].row = [@ EXCEPT
                                      !.completion_time = Now,
                                      !.completion_order = NextOrder(RouterUser)]]
    /\ UNCHANGED <<tasks, taskSeq, metrics, maxAssigned, last>>

\* metric = db.query(Metric)...first(); json.loads; append or filter; dumps
ReadMetric(r) ==
    LET q == inflight[r]
        m == metrics[q.row.metric_id]
    IN /\ q.pc = "ordered"
       /\ UNCHANGED <<tasks, taskSeq, metrics, maxAssigned>>
       /\ IF ~Credits(q.row)
          THEN /\ inflight' = [inflight EXCEPT ![r].pc = "ready"]
               /\ last' = last
          ELSE IF \/ JsonLoadsRaises(m.contributions_list)
                  \/ NotAList(m.contributions_list)
          THEN /\ inflight' = [inflight EXCEPT ![r] = Idle]
               /\ last' = Response("update_task", 500)
          ELSE /\ q.adds => Len(JsonLoads(m.contributions_list)) < MaxLedger
               /\ inflight' =
                     [inflight EXCEPT
                         ![r].pc = "ready",
                         ![r].metric =
                             IF q.adds
                             THEN Recorded(m, q.id, q.row.contribution_value)
                             ELSE Removed(m, q.id)]
               /\ last' = last

\* the columns an UPDATE of the task sets: those the request changed
Flushed(cur, orig, row) ==
    [cur EXCEPT
        !.completed = IF row.completed # orig.completed THEN row.completed
                      ELSE @,
        !.completion_time =
            IF row.completion_time # orig.completion_time
            THEN row.completion_time ELSE @,
        !.completion_order =
            IF row.completion_order # orig.completion_order
            THEN row.completion_order ELSE @]

\* db.commit(): the metric's new ledger and current_value, and the task
Commit(r) ==
    LET q == inflight[r]
        o == q.row.completion_order
    IN /\ q.pc = "ready"
       /\ metrics' = IF q.metric.exists
                     THEN [metrics EXCEPT
                             ![q.row.metric_id].contributions_list =
                                 q.metric.contributions_list,
                             ![q.row.metric_id].current_value =
                                 q.metric.current_value]
                     ELSE metrics
       /\ tasks' = [tasks EXCEPT ![q.id] = Flushed(@, q.orig, q.row)]
       /\ maxAssigned' = [maxAssigned EXCEPT ![RouterUser] =
                             IF o # NULL /\ o > @ THEN o ELSE @]
       /\ inflight' = [inflight EXCEPT ![r] = Idle]
       /\ last' = Response("update_task", 200)
       /\ UNCHANGED taskSeq

\* ----------------------------------------- specification: concurrent updates
\* User 1's tasks contribute their own id as value to one metric, or to none;
\* two requests at a time complete and un-complete them, MaxOps in all.
InitRace ==
    /\ \E mid \in {NULL} \cup MetricIds :
          tasks = [t \in TaskIds |->
                      [NoTask EXCEPT
                          !.exists = TRUE,
                          !.user_id = RouterUser,
                          !.metric_id = mid,
                          !.contribution_value =
                              IF mid = NULL THEN NoValue ELSE t]]
    /\ taskSeq = MaxTasks
    /\ metrics = [m \in MetricIds |-> NewMetric]
    /\ metricSeq = Cardinality(MetricIds)
    /\ owned = [k \in ChildKinds |-> {}]
    /\ goals = [g \in GoalIds |-> NoGoal]
    /\ goalSeq = 0
    /\ maxAssigned = [u \in Users |-> 0]
    /\ last = Response("init", 200)
    /\ http = NoReply
    /\ ops = 0
    /\ rq = NoRequest
    /\ reminders = NoReminders
    /\ inflight = NoneInFlight

NextRace ==
    /\ UNCHANGED <<metricSeq, goals, goalSeq, owned, http, rq, reminders>>
    /\ \/ /\ ops < MaxOps
          /\ ops' = ops + 1
          /\ \E r \in Requests, id \in TaskIds, c \in {"true", "false"} :
                BeginUpdate(r, id, c)
       \/ /\ UNCHANGED ops
          /\ \E r \in Requests : ReadOrder(r) \/ ReadMetric(r) \/ Commit(r)

SpecRace == InitRace /\ [][NextRace]_vars

\* --------------------------------------------------------------- reminders
\* db.query(Reminder).filter(Reminder.task_id == task_id, Reminder.id != id)
OtherReminders(t, r) ==
    {x \in ReminderIds \ {r} : reminders[x].exists /\ reminders[x].task_id = t}

FreeReminderIds == {r \in ReminderIds : ~reminders[r].exists}

TaskIdInputs == {Unset, NULL} \cup TaskIds

\* create_reminder: the row is added, the flag of its task is raised, and
\* both are committed together; the foreign key rejects a task that is gone
CreateReminder(t) ==
    /\ FreeReminderIds # {}
    /\ IF t # NULL /\ ~tasks[t].exists
       THEN /\ last' = Response("create_reminder", 500)
            /\ UNCHANGED <<reminders, tasks>>
       ELSE LET r == CHOOSE x \in FreeReminderIds :
                        \A y \in FreeReminderIds : x <= y
            IN /\ reminders' = [reminders EXCEPT ![r] =
                                   [exists |-> TRUE, task_id |-> t]]
               /\ tasks' = IF t # NULL
                           THEN [tasks EXCEPT ![t].has_reminders = TRUE]
                           ELSE tasks
               /\ last' = Response("create_reminder", 200)

\* update_reminder: for key, value in update_data.items(): setattr(...)
UpdateReminder(r, t) ==
    IF ~reminders[r].exists
    THEN /\ last' = Response("update_reminder", 404)
         /\ UNCHANGED <<reminders, tasks>>
    ELSE IF t \in TaskIds /\ ~tasks[t].exists
    THEN /\ last' = Response("update_reminder", 500)
         /\ UNCHANGED <<reminders, tasks>>
    ELSE /\ reminders' = IF t = Unset THEN reminders
                         ELSE [reminders EXCEPT ![r].task_id = t]
         /\ last' = Response("update_reminder", 200)
         /\ UNCHANGED tasks

\* delete_reminder: the flag of the reminder's task is lowered when no other
\* reminder names that task
DeleteReminder(r) ==
    IF ~reminders[r].exists
    THEN /\ last' = Response("delete_reminder", 404)
         /\ UNCHANGED <<reminders, tasks>>
    ELSE LET t == reminders[r].task_id
         IN /\ tasks' = IF /\ t # NULL
                           /\ OtherReminders(t, r) = {}
                           /\ tasks[t].exists
                        THEN [tasks EXCEPT ![t].has_reminders = FALSE]
                        ELSE tasks
            /\ reminders' = [reminders EXCEPT ![r] = NoReminder]
            /\ last' = Response("delete_reminder", 200)

\* ------------------------------------------------ specification: reminders
\* The reminders router, called for the tasks user 1 has created.
InitReminders ==
    /\ \E n \in 1..MaxTasks :
          /\ tasks = [t \in TaskIds |->
                         IF t <= n
                         THEN [NoTask EXCEPT !.exists = TRUE,
                                             !.user_id = RouterUser]
                         ELSE NoTask]
          /\ taskSeq = n
    /\ metrics = [m \in MetricIds |-> NewMetric]
    /\ metricSeq = Cardinality(MetricIds)
    /\ owned = [k \in ChildKinds |-> {}]
    /\ goals = [g \in GoalIds |-> NoGoal]
    /\ goalSeq = 0
    /\ maxAssigned = [u \in Users |-> 0]
    /\ last = Response("init", 200)
    /\ http = NoReply
    /\ ops = 0
    /\ rq = NoRequest
    /\ reminders = NoReminders
    /\ inflight = NoneInFlight

NextReminders ==
    /\ UNCHANGED <<taskSeq, metrics, metricSeq, goals, goalSeq, owned,
                   maxAssigned, http, ops, rq, inflight>>
    /\ \/ \E t \in {NULL} \cup TaskIds : CreateReminder(t)
       \/ \E r \in ReminderIds, t \in TaskIdInputs : UpdateReminder(r, t)
       \/ \E r \in ReminderIds : DeleteReminder(r)

SpecReminders == InitReminders /\ [][NextReminders]_vars

\* ------------------------------------------- specification: malformed data
\* The same requests, sent to a store whose metrics hold ledger data that
\* update_task did not write.
InitMalformed ==
    /\ tasks = [t \in TaskIds |-> NoTask]
    /\ taskSeq = 0
    /\ \E cl \in MalformedLedgers :
          metrics = [m \in MetricIds |->
                        [NewMetric EXCEPT !.contributions_list = cl]]
    /\ metricSeq = Cardinality(MetricIds)
    /\ owned = [k \in ChildKinds |-> {}]
    /\ goals = [g \in GoalIds |-> NoGoal]
    /\ goalSeq = 0
    /\ maxAssigned = [u \in Users |-> 0]
    /\ last = Response("init", 200)
    /\ http = NoReply
    /\ ops = 0
    /\ reminders = NoReminders
    /\ inflight = NoneInFlight
    /\ rq = NoRequest

SpecMalformed == InitMalformed /\ [][NextLedger]_vars

\* ------------------------------------------------------------------- goals
Children(S) == {g \in GoalIds : goals[g].exists /\ goals[g].parent_id \in S}

RECURSIVE Closure(_, _)
Closure(S, n) == IF n = 0 THEN S ELSE Closure(S \cup Children(S), n - 1)

\* the subgoals of g, their subgoals, and so on
Descendants(g) == Closure(Children({g}), MaxGoals)

\* POST /goals; the foreign key goals.parent_id -> goals.id is enforced
CreateGoal(u, p) ==
    /\ goalSeq < MaxGoals
    /\ UNCHANGED <<tasks, taskSeq, metrics, metricSeq, owned, maxAssigned>>
    /\ IF p # NULL /\ ~goals[p].exists
       THEN /\ last' = Response("create_goal", 404)
            /\ UNCHANGED <<goals, goalSeq>>
       ELSE IF p # NULL /\ goals[p].user_id # u
       THEN /\ last' = Response("create_goal", 403)
            /\ UNCHANGED <<goals, goalSeq>>
       ELSE /\ goalSeq' = goalSeq + 1
            /\ goals' = [goals EXCEPT ![goalSeq + 1] =
                            [exists |-> TRUE, user_id |-> u, parent_id |-> p]]
            /\ last' = Response("create_goal", 200)

\* PUT /goals/{goal_id} with a body that sets parent_id (None included)
UpdateGoal(u, g, p) ==
    /\ UNCHANGED <<tasks, taskSeq, metrics, metricSeq, goalSeq, owned,
                   maxAssigned>>
    /\ IF ~goals[g].exists
       THEN /\ last' = Response("update_goal", 404)
            /\ UNCHANGED goals
       ELSE IF goals[g].user_id # u
       THEN /\ last' = Response("update_goal", 403)
            /\ UNCHANGED goals
       ELSE IF p # NULL /\ ~goals[p].exists
       THEN \* commit fails on the foreign key; rollback
            /\ last' = Response("update_goal", 500)
            /\ UNCHANGED goals
       ELSE \* setattr(goal, field, value) for every field sent; commit
            /\ goals' = [goals EXCEPT ![g].parent_id = p]
            /\ last' = Response("update_goal", 200)

\* db.delete(goal) reaches, through the relationships declared with
\* cascade="all, delete-orphan", the goal's subgoals (and theirs), tasks,
\* metrics, notes, situations (with their phases) and conversations; a task
\* that stays and points at a deleted metric gets metric_id = NULL.
DeletedAlone(g) == {g}

Deleted(g) == {g} \cup Descendants(g)

TasksAfterDelete(D) ==
    [t \in TaskIds |->
        IF tasks[t].exists /\ tasks[t].goal_id \in D THEN NoTask
        ELSE IF /\ tasks[t].exists
                /\ tasks[t].metric_id # NULL
                /\ metrics[tasks[t].metric_id].exists
                /\ metrics[tasks[t].metric_id].goal_id \in D
        THEN [tasks[t] EXCEPT !.metric_id = NULL]
        ELSE tasks[t]]

MetricsAfterDelete(D) ==
    [m \in MetricIds |->
        IF metrics[m].exists /\ metrics[m].goal_id \in D
        THEN NoMetric ELSE metrics[m]]

\* What a delete takes away (history, kept with the outcome of the request).
Removals(D) ==
    [goals |-> D,
     tasks |-> {t \in TaskIds : tasks[t].exists /\ tasks[t].goal_id \in D},
     metrics |-> {m \in MetricIds : metrics[m].exists /\ metrics[m].goal_id \in D},
     kinds |-> {k \in ChildKinds : owned[k] \cap D # {}}]

\* DELETE /goals/{goal_id}
DeleteGoal(u, g) ==
    /\ UNCHANGED <<taskSeq, metricSeq, goalSeq, maxAssigned>>
    /\ IF ~goals[g].exists
       THEN /\ last' = Response("delete_goal", 404)
            /\ UNCHANGED <<goals, tasks, metrics, owned>>
       ELSE IF goals[g].user_id # u
       THEN /\ last' = Response("delete_goal", 403)
            /\ UNCHANGED <<goals, tasks, metrics, owned>>
       ELSE /\ goals' = [x \in GoalIds |->
                            IF x \in Deleted(g) THEN NoGoal ELSE goals[x]]
            /\ tasks' = TasksAfterDelete(Deleted(g))
            /\ metrics' = MetricsAfterDelete(Deleted(g))
            /\ owned' = [k \in ChildKinds |-> owned[k] \ Deleted(g)]
            /\ last' = [op |-> "delete_goal", status |-> 200,
                        removed |-> Removals(Deleted(g))]

\* ---------------------------------------------------- specification: goals
NextGoals ==
    /\ UNCHANGED <<http, ops, rq, reminders, inflight>>
    /\ \/ \E u \in Users, p \in {NULL} \cup GoalIds : CreateGoal(u, p)
       \/ \E u \in Users, g \in GoalIds, p \in {NULL} \cup GoalIds :
             UpdateGoal(u, g, p)
       \/ \E u \in Users, g \in GoalIds : DeleteGoal(u, g)

SpecGoals == InitStore /\ [][NextGoals]_vars

\* ---------------------------------------------------------- goal responses
\* prepare_metric_for_response: a str ledger is parsed and a list is used as
\* it is; the current_value sent is the sum over the ledger, not the stored
\* column, and the ledger is sent as JSON text.
ResponseContributions(cl) == cl.items

PrepareMetricForResponse(m) ==
    [id |-> m,
     current_value |-> SumValues(ResponseContributions(metrics[m].contributions_list)),
     contributions_list |->
         JsonDumps(ResponseContributions(metrics[m].contributions_list))]

TasksOf(g) == {t \in TaskIds : tasks[t].exists /\ tasks[t].goal_id = g}

MetricsOf(g) == {m \in MetricIds : metrics[m].exists /\ metrics[m].goal_id = g}

\* What goes wrong while a goal's related rows are loaded: nothing, the
\* query of one branch raises, or the conversion of one row of a branch (the
\* one with the least id) raises.
Branches == {"tasks", "metrics", "subgoals"}

NoFault == [kind |-> "none", branch |-> "none"]

Faults ==
    {NoFault} \cup {[kind |-> k, branch |-> b] : k \in {"query", "item"},
                                                 b \in Branches}

FailingRows(b, found, f) ==
    IF f.kind = "item" /\ f.branch = b /\ found # {}
    THEN {CHOOSE i \in found : \A j \in found : i <= j}
    ELSE {}

\* One branch of prepare_goal_for_response: try: query; for row: try:
\* convert, append / except: log; goal_dict[branch] = rows / except: log
LoadBranchAllOrNothing(b, found, f) ==
    IF (f.kind = "query" /\ f.branch = b) \/ FailingRows(b, found, f) # {}
    THEN {}
    ELSE found

LoadBranch(b, found, f) ==
    IF f.kind = "query" /\ f.branch = b THEN {}
    ELSE found \ FailingRows(b, found, f)

\* prepare_goal_for_response: the goal with the tasks, metrics and subgoals
\* that three direct queries find for it
PrepareGoalWith(g, f) ==
    [id |-> g,
     user_id |-> goals[g].user_id,
     parent_id |-> goals[g].parent_id,
     tasks |-> LoadBranch("tasks", TasksOf(g), f),
     metrics |-> {PrepareMetricForResponse(m) :
                     m \in LoadBranch("metrics", MetricsOf(g), f)},
     subgoals |-> LoadBranch("subgoals", Children({g}), f)]

PrepareGoalForResponse(g) == PrepareGoalWith(g, NoFault)

\* filter(Goal.user_id == current_user.id).order_by(Goal.created_at.desc());
\* ids are handed out in creation order
RECURSIVE NewestFirst(_, _)
NewestFirst(u, n) ==
    IF n = 0 THEN <<>>
    ELSE (IF goals[n].exists /\ goals[n].user_id = u
          THEN <<PrepareGoalForResponse(n)>> ELSE <<>>) \o NewestFirst(u, n - 1)

AfterReadCommitted(ms) ==
    [m \in MetricIds |->
        IF ms[m].exists
        THEN [ms[m] EXCEPT !.contributions_list = JsonDumps(@.items)]
        ELSE ms[m]]

\* What a read leaves in the metrics table: the sessions the read opens are
\* closed without a commit and the response is built in dictionaries.
AfterRead(ms) == ms

\* GET /goals
GetGoals(u) ==
    /\ metrics' = AfterRead(metrics)
    /\ last' = Response("get_goals", 200)
    /\ http' = Reply("get_goals", <<u>>, 200, NewestFirst(u, MaxGoals))
    /\ UNCHANGED <<tasks, taskSeq, metricSeq, goals, goalSeq, owned, maxAssigned>>

\* GET /goals/{goal_id}, with what goes wrong while the related rows load
ReadGoalWith(u, g, f) ==
    LET status == IF ~goals[g].exists THEN 404
                  ELSE IF goals[g].user_id # u THEN 403 ELSE 200
    IN /\ metrics' = AfterRead(metrics)
       /\ last' = [op |-> "read_goal", status |-> status,
                   repeat |-> http.op = "read_goal" /\ http.req = <<u, g>>,
                   fault |-> f]
       /\ http' = Reply("read_goal", <<u, g>>, status,
                        IF status = 200 THEN <<PrepareGoalWith(g, f)>>
                        ELSE NoBody)
       /\ UNCHANGED <<tasks, taskSeq, metricSeq, goals, goalSeq, owned,
                      maxAssigned>>

\* GET /goals/{goal_id} when every row loads
ReadGoal(u, g) == ReadGoalWith(u, g, NoFault)

\* ------------------------------------------------- what a goal comes to own
\* create_task with goal_id in the body: the goal is not looked up, so the
\* only check is the foreign key at commit
CreateTaskIn(u, g) ==
    /\ taskSeq < MaxTasks
    /\ IF ~goals[g].exists
       THEN /\ last' = Response("create_task", 500)
            /\ UNCHANGED <<tasks, taskSeq>>
       ELSE /\ taskSeq' = taskSeq + 1
            /\ tasks' = [tasks EXCEPT ![taskSeq + 1] =
                            [NoTask EXCEPT !.exists = TRUE, !.user_id = u,
                                           !.goal_id = g]]
            /\ last' = Response("create_task", 200)
    /\ UNCHANGED <<metrics, maxAssigned>>

\* POST /goals/{goal_id}/metrics: current_value is taken from the body
CreateMetric(u, g, cv) ==
    /\ metricSeq < Cardinality(MetricIds)
    /\ UNCHANGED <<tasks, taskSeq, goals, goalSeq, owned, maxAssigned>>
    /\ IF ~goals[g].exists
       THEN /\ last' = Response("create_metric", 404)
            /\ UNCHANGED <<metrics, metricSeq>>
       ELSE IF goals[g].user_id # u
       THEN /\ last' = Response("create_metric", 403)
            /\ UNCHANGED <<metrics, metricSeq>>
       ELSE /\ metricSeq' = metricSeq + 1
            /\ metrics' = [metrics EXCEPT ![metricSeq + 1] =
                              [NewMetric EXCEPT !.goal_id = g,
                                                !.current_value = cv]]
            /\ last' = Response("create_metric", 200)

\* POST /goals/{goal_id}/notes, /situations (with or without phases) and
\* /conversations: no lookup of the goal, the foreign key decides at commit
CreateChild(kinds, g) ==
    /\ UNCHANGED <<tasks, taskSeq, metrics, metricSeq, goals, goalSeq,
                   maxAssigned>>
    /\ IF ~goals[g].exists
       THEN /\ last' = Response("create_child", 500)
            /\ UNCHANGED owned
       ELSE /\ owned' = [k \in ChildKinds |->
                            IF k \in kinds THEN owned[k] \cup {g} ELSE owned[k]]
            /\ last' = Response("create_child", 201)

CreateNote(g) == CreateChild({"note"}, g)

CreateSituation(g, phases) ==
    CreateChild(IF phases THEN {"situation", "phase"} ELSE {"situation"}, g)

CreateConversation(g) == CreateChild({"conversation"}, g)

\* create_situation with the point at which the database fails: at the
\* commit of the situation row ("situation"), at the commit of the phase
\* rows ("phases"), or nowhere ("none").  The situation row is committed
\* before the first Phase is built; the phases are committed together.
CommitFaults == {"none", "situation", "phases"}

CreateSituationWith(g, phases, fault) ==
    /\ UNCHANGED <<tasks, taskSeq, metrics, metricSeq, goals, goalSeq,
                   maxAssigned>>
    /\ IF ~goals[g].exists \/ fault = "situation"
       THEN /\ last' = Response("create_situation", 500)
            /\ UNCHANGED owned
       ELSE IF phases /\ fault = "phases"
       THEN /\ owned' = [owned EXCEPT !["situation"] = @ \cup {g}]
            /\ last' = Response("create_situation", 500)
       ELSE /\ owned' = [k \in ChildKinds |->
                            IF k = "situation" \/ (k = "phase" /\ phases)
                            THEN owned[k] \cup {g} ELSE owned[k]]
            /\ last' = Response("create_situation", 201)

\* ------------------------------------------------- the store, still empty
\* No goal, task or metric exists; the routers build them.
InitTree ==
    /\ tasks = [t \in TaskIds |-> NoTask]
    /\ taskSeq = 0
    /\ metrics = [m \in MetricIds |-> NoMetric]
    /\ metricSeq = 0
    /\ owned = [k \in ChildKinds |-> {}]
    /\ goals = [g \in GoalIds |-> NoGoal]
    /\ goalSeq = 0
    /\ maxAssigned = [u \in Users |-> 0]
    /\ last = Response("init", 200)
    /\ http = NoReply
    /\ ops = 0
    /\ reminders = NoReminders
    /\ inflight = NoneInFlight
    /\ rq = NoRequest

\* The user_id both create_metric handlers give a metric: the goal's owner
\* for POST /goals/{goal_id}/metrics (which answers 403 to anyone else),
\* user_id=1 for POST /metrics, which also made the rows whose goal is
\* outside the model.
MetricUser(m) ==
    IF metrics[m].goal_id = NULL THEN RouterUser
    ELSE goals[metrics[m].goal_id].user_id

\* PUT /metrics/{metric_id}, which runs as user_id=1: setattr for every field
\* of the body that is set, current_value among them; an explicit null for
\* current_value violates NOT NULL at commit
UpdateMetric(m, cv) ==
    /\ UNCHANGED <<tasks, taskSeq, metricSeq, goals, goalSeq, owned, maxAssigned>>
    /\ IF ~metrics[m].exists \/ MetricUser(m) # RouterUser
       THEN /\ last' = Response("update_metric", 404)
            /\ UNCHANGED metrics
       ELSE IF cv = NoValue
       THEN /\ last' = Response("update_metric", 500)
            /\ UNCHANGED metrics
       ELSE /\ metrics' = [metrics EXCEPT ![m].current_value =
                              IF cv = Unset THEN @ ELSE cv]
            /\ last' = Response("update_metric", 200)

\* a handler whose outcome is the response
Sent == Reply(last'.op, <<>>, last'.status, NoBody)

\* the tasks router: `except Exception` answers every exception of the service,
\* the HTTPException of get_task included, with a 500 JSONResponse
TasksRouterSent(req) ==
    Reply(last'.op, req, IF last'.status = 200 THEN 200 ELSE 500, NoBody)

\* the goals router, for any authenticated user
GoalWrites ==
    \/ \E u \in Users, p \in {NULL} \cup GoalIds : CreateGoal(u, p)
    \/ \E u \in Users, g \in GoalIds, cv \in {0, 1} : CreateMetric(u, g, cv)

\* the tasks router: a task is put under a goal, then completed or reopened
\* with a metric and a contribution of 1 in the body
TaskWrites ==
    \/ \E g \in GoalIds : CreateTaskIn(RouterUser, g)
    \/ \E id \in TaskIds, c \in {"true", "false"}, mid \in MetricIds :
          UpdateTask(RouterUser, id, c, mid, 1)

\* ---------------------------------------------------- specification: reads
\* Up to MaxOps writes that build goals with subgoals, tasks and metrics, and
\* any number of reads between them.
NextReads ==
    /\ UNCHANGED <<rq, reminders, inflight>>
    /\ \/ /\ UNCHANGED ops
          /\ \/ \E u \in Users : GetGoals(u)
             \/ \E u \in Users, g \in GoalIds : ReadGoal(u, g)
       \/ /\ ops < MaxOps
          /\ ops' = ops + 1
          /\ \/ GoalWrites /\ http' = Sent
             \/ /\ TaskWrites
                /\ UNCHANGED <<goals, goalSeq, metricSeq, owned>>
                /\ http' = TasksRouterSent(<<>>)

SpecReads == InitTree /\ [][NextReads]_vars

\* ------------------------------------------------ specification: goal tree
\* Goals with everything they own, built and deleted through the routers.
NextTree ==
    /\ UNCHANGED <<rq, reminders, inflight>>
    /\ ops < MaxOps
    /\ ops' = ops + 1
    /\ \/ /\ \/ GoalWrites
             \/ \E u \in Users, g \in GoalIds : DeleteGoal(u, g)
             \/ \E g \in GoalIds : CreateNote(g)
             \/ \E g \in GoalIds, phases \in BOOLEAN : CreateSituation(g, phases)
             \/ \E g \in GoalIds : CreateConversation(g)
          /\ http' = Sent
       \/ /\ TaskWrites
          /\ UNCHANGED <<goals, goalSeq, metricSeq, owned>>
          /\ http' = TasksRouterSent(<<>>)

SpecTree == InitTree /\ [][NextTree]_vars

\* ----------------------------------------------- specification: situations
\* Goals are created and deleted, and situations are created for them while
\* the database may fail at either commit; up to MaxOps requests.
NextSituations ==
    /\ ops < MaxOps
    /\ ops' = ops + 1
    /\ UNCHANGED <<rq, reminders, inflight>>
    /\ \/ \E u \in Users, p \in {NULL} \cup GoalIds : CreateGoal(u, p)
       \/ \E g \in GoalIds : DeleteGoal(goals[g].user_id, g)
       \/ \E g \in GoalIds, phases \in BOOLEAN, fault \in CommitFaults :
             CreateSituationWith(g, phases, fault)
    /\ http' = Sent

SpecSituations == InitTree /\ [][NextSituations]_vars

\* --------------------------------------------------- specification: faults
\* One user creates goals, subgoals, tasks and metrics with up to MaxOps
\* writes; between them the goals are read while a branch, or a row of it,
\* fails to load.
NextFaults ==
    /\ UNCHANGED <<rq, reminders, inflight>>
    /\ \/ /\ UNCHANGED ops
          /\ \E g \in GoalIds, f \in Faults : ReadGoalWith(RouterUser, g, f)
       \/ /\ ops < MaxOps
          /\ ops' = ops + 1
          /\ \/ /\ \/ \E p \in {NULL} \cup GoalIds : CreateGoal(RouterUser, p)
                   \/ \E g \in GoalIds : CreateMetric(RouterUser, g, 0)
                /\ http' = Sent
             \/ /\ \E g \in GoalIds : CreateTaskIn(RouterUser, g)
                /\ UNCHANGED <<goals, goalSeq, metricSeq, owned>>
                /\ http' = TasksRouterSent(<<>>)

SpecFaults == InitTree /\ [][NextFaults]_vars

\* -------------------------------------------------- specification: metrics
\* Goals, metrics and tasks written through the three routers: metrics are
\* created with a current_value, edited with PUT /metrics/{metric_id} and
\* credited by completing tasks.
NextMetrics ==
    /\ UNCHANGED <<rq, reminders, inflight>>
    /\ ops < MaxOps
    /\ ops' = ops + 1
    /\ \/ GoalWrites /\ http' = Sent
       \/ /\ \E m \in MetricIds, cv \in ValueInputs : UpdateMetric(m, cv)
          /\ http' = Sent
       \/ /\ TaskWrites
          /\ UNCHANGED <<goals, goalSeq, metricSeq, owned>>
          /\ http' = TasksRouterSent(<<>>)

SpecMetrics == InitTree /\ [][NextMetrics]_vars

\* --------------------------------------------- specification: tasks router
\* GET, PUT and DELETE /tasks/{task_id}, which run the service as user_id=1,
\* over a table that also holds rows of another user: rows written beside
\* the router, which answer no request.
TaskRequests == {"get_task", "update_task", "delete_task"}

NextTasksRouter ==
    /\ UNCHANGED <<goals, goalSeq, metricSeq, owned, ops, rq, reminders, inflight>>
    /\ \/ \E u \in Users : CreateTask(u) /\ http' = NoReply
       \/ \E id \in TaskIds :
             /\ \/ GetTask(RouterUser, id)
                \/ \E c \in CompletedInputs :
                      UpdateTask(RouterUser, id, c, Unset, Unset)
                \/ DeleteTask(RouterUser, id)
             /\ http' = TasksRouterSent(<<id>>)

SpecTasksRouter == InitStore /\ [][NextTasksRouter]_vars

\* ------------------------------------------------- fix_metric_contributions
\* next((c for c in contributions if c.get('task_id') == task.id), None)
HasEntry(s, id) == \E i \in 1..Len(s) : s[i].task_id = id

\* Task.completed == True, metric_id not None, contribution_value not None
Repairable(id) ==
    /\ tasks[id].exists
    /\ tasks[id].completed
    /\ tasks[id].metric_id # NULL
    /\ tasks[id].contribution_value # NoValue

FixOneUnchecked(ms, id) ==
    IF Repairable(id) /\ ms[tasks[id].metric_id].exists
    THEN LET mid == tasks[id].metric_id
             c == JsonLoads(ms[mid].contributions_list)
         IN [ms EXCEPT ![mid].contributions_list =
                JsonDumps(Append(c, [value |-> tasks[id].contribution_value,
                                     task_id |-> id]))]
    ELSE ms

\* the body of the loop: a task whose metric is gone is skipped; the entry is
\* appended when the ledger has none for the task; current_value is left as
\* it is
FixOne(ms, id) ==
    IF Repairable(id)
       /\ ms[tasks[id].metric_id].exists
       /\ ~HasEntry(JsonLoads(ms[tasks[id].metric_id].contributions_list), id)
    THEN LET mid == tasks[id].metric_id
             c == JsonLoads(ms[mid].contributions_list)
         IN [ms EXCEPT ![mid].contributions_list =
                JsonDumps(Append(c, [value |-> tasks[id].contribution_value,
                                     task_id |-> id]))]
    ELSE ms

\* for task in completed_tasks, in the order of the query (ascending id)
RECURSIVE FixFrom(_, _)
FixFrom(ms, id) ==
    IF id > MaxTasks THEN ms ELSE FixFrom(FixOne(ms, id), id + 1)

FixedLedgers(ms) == FixFrom(ms, 1)

FixMetricContributions ==
    /\ \A m \in MetricIds :
          Len(JsonLoads(FixedLedgers(metrics)[m].contributions_list)) <= MaxLedger
    /\ metrics' = FixedLedgers(metrics)
    /\ last' = Response("fix_metric_contributions", 200)
    /\ UNCHANGED <<tasks, taskSeq, maxAssigned>>

\* ----------------------------------------------- specification: the script
\* The script run between requests of the tasks router.
NextFix ==
    /\ ops < MaxOps
    /\ ops' = ops + 1
    /\ UNCHANGED <<goals, goalSeq, metricSeq, owned, http, rq, reminders, inflight>>
    /\ \/ LedgerStep
       \/ FixMetricContributions

SpecFix == InitStore /\ [][NextFix]_vars

\* ------------------------------------------------ recommendation: the inputs
\* A priority as Python sees it: a str, an int (Task.priority is an Integer
\* column holding 1, 2 or 3) or None.
StrPriority(s) == [str |-> s]

IntPriority(n) == [int |-> n]

NoPriority == [none |-> TRUE]

StrPriorities == {StrPriority(s) : s \in {"high", "medium", "low"}}

TaskPriorities == StrPriorities \cup {IntPriority(n) : n \in 1..3}
                  \cup {NoPriority}

GoalPriorities == StrPriorities \cup {IntPriority(2), NoPriority}

\* due_date: NULL or a timestamp.
DueDates == {NULL, 1, 2}

\* (priority, days since updated_at) of the goals to choose from.
GoalProfiles ==
    (GoalPriorities \X {0})
    \cup {<<StrPriority("medium"), 10>>, <<StrPriority("low"), 20>>}

Providers == {"sambanova", "openrouter"}

ProviderInputs == Providers \cup {"none"}

\* What an attempt on a provider can come to.
ProviderOutcomes == {"ok", "http_error", "exception", "unparseable"}

\* What the message of an OpenRouter answer (HTTP 200 with choices) holds:
\* content that is the JSON asked for (the regex would find the id in it as
\* well), content that is not valid JSON but in which the regex finds the id,
\* content that is neither, and empty content, with or without a reasoning
\* field that names a goal.
Contents == {"json", "regex_only", "neither", "empty_reasoning", "empty"}

NoContent == "none"

\* json.loads(content) succeeds and the object carries the id
ValidJson(c) == c = "json"

\* re.search(r'"task_id"\s*:\s*"?(\d+)"?', content), r'"goal_id"...'
RegexMatches(c) == c \in {"json", "regex_only"}

\* re.search(r'goal (\d+)', reasoning.lower())
ReasoningNamesGoal(c) == c = "empty_reasoning"

IsEmpty(c) == c \in {"empty_reasoning", "empty"}

\* The tier that makes the recommendation out of the message, "failed" when
\* the function raises instead.  The task function raises on empty content;
\* the goal function reads the reasoning field when the content is empty.
ParseTier(forGoal, c) ==
    IF forGoal /\ IsEmpty(c) /\ ReasoningNamesGoal(c) THEN "reasoning"
    ELSE IF ~forGoal /\ IsEmpty(c) THEN "failed"
    ELSE IF ValidJson(c) THEN "json"
    ELSE IF RegexMatches(c) THEN "regex"
    ELSE "failed"

\* ai_confidence in thousandths.  The fallbacks answer 0.7; a provider's
\* answer carries whatever number the LLM wrote, 0.8 when it wrote none.
FallbackConfidence == 700

LLMConfidences == {800, 1500}

\* recommend_goal asks for the top three goals.
top_n == 3

\* The id in a provider's answer: a JSON number ("int"), a JSON string of
\* digits ("str"), a string that is no number ("text"), or no id at all.
Answer(form, value) == [form |-> form, value |-> value]

NoAnswer == Answer("none", NoValue)

Missing == Answer("missing", NoValue)

UnknownId == 99

MemberAnswers(cands) == {Answer("int", cands[k].id) : k \in 1..Len(cands)}

AnyAnswers(cands) ==
    MemberAnswers(cands)
    \cup {Answer("int", UnknownId), Answer("str", cands[Len(cands)].id),
          Answer("text", NoValue), Missing}

\* The answers a run considers: those that name a candidate, or all of them.
Answers(cands, any) ==
    IF any THEN AnyAnswers(cands) ELSE MemberAnswers(cands)

\* task.id == recommendation["task_id"] (strict) compares the int with what
\* the JSON holds; str(goal.id) == str(recommendation["goal_id"]) compares
\* the texts.
Matches(id, a, strict) ==
    /\ a.value = id
    /\ a.form = "int" \/ (a.form = "str" /\ ~strict)

LookupNoDefault(cands, a, strict) ==
    IF \E k \in 1..Len(cands) : Matches(cands[k].id, a, strict)
    THEN cands[CHOOSE k \in 1..Len(cands) :
                  /\ Matches(cands[k].id, a, strict)
                  /\ \A j \in 1..(k - 1) : ~Matches(cands[j].id, a, strict)].id
    ELSE a.value

\* next((task for task in tasks if ...), tasks[0])
Lookup(cands, a, strict) ==
    IF \E k \in 1..Len(cands) : Matches(cands[k].id, a, strict)
    THEN cands[CHOOSE k \in 1..Len(cands) :
                  /\ Matches(cands[k].id, a, strict)
                  /\ \A j \in 1..(k - 1) : ~Matches(cands[j].id, a, strict)].id
    ELSE cands[1].id

TaskCand(id, p, d) == [id |-> id, priority |-> p, due_date |-> d]

\* An incomplete task of a goal: its priority and its due date (days from
\* now, or NULL).
GoalTask(p, d) == [priority |-> p, due_date |-> d]

\* A goal as the scorer reads it: the number of its targets and the
\* deadlines (days from now) of those that have one, its metrics, its
\* incomplete tasks, the age of updated_at.  rounding is the last-bit
\* error of its final_score, which Python computes in binary floating point.
GoalCand(id, p, d) ==
    [id |-> id, priority |-> p, days_since_update |-> d,
     targets |-> 0, deadlines |-> <<>>, metrics |-> <<>>,
     incomplete_tasks |-> <<>>, rounding |-> 0]

\* Candidate lists; a candidate's id is its position in the query result.
TaskProfiles == TaskPriorities \X DueDates

TaskList(f) == [i \in DOMAIN f |-> TaskCand(i, f[i][1], f[i][2])]

GoalList(f) == [i \in DOMAIN f |-> GoalCand(i, f[i][1], f[i][2])]

\* ------------------------------------------ create_fallback_recommendation
Rec(id, source, confidence) ==
    [id |-> id, source |-> source, confidence |-> confidence]

NoRec == Rec(NULL, "none", 0)

Returned(r) == [outcome |-> "returned", error |-> "", result |-> r]

Raised(e) == [outcome |-> "raised", error |-> e, result |-> NoRec]

ReturnedNone == [outcome |-> "none", error |-> "", result |-> NoRec]

\* {"high": 0, "medium": 1, "low": 2}[t.priority]
HasWeight(p) == p \in StrPriorities

Weight(p) == CASE p = StrPriority("high") -> 0
               [] p = StrPriority("medium") -> 1
               [] p = StrPriority("low") -> 2

\* The sort key compared as Python compares tuples: the weight, then the
\* due date with None standing for float('inf').
KeyLessDueFirst(a, b) ==
    \/ a.due_date # NULL /\ (b.due_date = NULL \/ a.due_date < b.due_date)
    \/ /\ a.due_date = b.due_date
       /\ Weight(a.priority) < Weight(b.priority)

KeyLess(a, b) ==
    \/ Weight(a.priority) < Weight(b.priority)
    \/ /\ Weight(a.priority) = Weight(b.priority)
       /\ a.due_date # NULL
       /\ (b.due_date = NULL \/ a.due_date < b.due_date)

\* sorted() is stable: an element goes behind every element it is not
\* smaller than.
RECURSIVE InsertTask(_, _)
InsertTask(s, x) ==
    IF s = <<>> THEN <<x>>
    ELSE IF KeyLess(x, Head(s)) THEN <<x>> \o s
    ELSE <<Head(s)>> \o InsertTask(Tail(s), x)

RECURSIVE SortedTasks(_)
SortedTasks(ts) ==
    IF ts = <<>> THEN <<>>
    ELSE InsertTask(SortedTasks(SubSeq(ts, 1, Len(ts) - 1)), ts[Len(ts)])

\* The key is computed for every task (KeyError when a priority is not one
\* of the three strings), then sorted_tasks[0] is read (IndexError when the
\* list is empty).
CreateFallbackRecommendation(ts) ==
    IF \E i \in 1..Len(ts) : ~HasWeight(ts[i].priority)
    THEN Raised("KeyError")
    ELSE IF ts = <<>> THEN Raised("IndexError")
    ELSE Returned(Rec(Head(SortedTasks(ts)).id, "fallback",
                      FallbackConfidence))

\* ------------------------------------- create_fallback_goal_recommendation
\* Scores in tenths.
DeadlineUrgency(d) == IF d <= 3 THEN 20 ELSE IF d <= 7 THEN 10 ELSE 0

RECURSIVE SumDeadlineUrgency(_)
SumDeadlineUrgency(ds) ==
    IF ds = <<>> THEN 0
    ELSE DeadlineUrgency(Head(ds)) + SumDeadlineUrgency(Tail(ds))

MetricImportance(m) ==
    IF m.target_value > 0
    THEN (IF m.current_value * 100 < 25 * m.target_value THEN 5 ELSE 0)
         + (IF m.target_value > 100 THEN 5 ELSE 0)
    ELSE 0

RECURSIVE SumMetricImportance(_)
SumMetricImportance(ms) ==
    IF ms = <<>> THEN 0
    ELSE MetricImportance(Head(ms)) + SumMetricImportance(Tail(ms))

ImportanceScore(g) ==
    (IF g.priority = StrPriority("high") THEN 80
     ELSE IF g.priority = StrPriority("low") THEN 30 ELSE 50)
    + SumMetricImportance(g.metrics)
    + (IF Len(g.incomplete_tasks) > 5 THEN 10 ELSE 0)

UrgencyScore(g) ==
    50 + SumDeadlineUrgency(g.deadlines)
    + (IF g.days_since_update > 14 THEN 15
       ELSE IF g.days_since_update > 7 THEN 8 ELSE 0)

\* final_score in hundredths: importance * 0.6 + urgency * 0.4.
FinalScore(g) == ImportanceScore(g) * 6 + UrgencyScore(g) * 4

\* x["score"] > y["score"] on the floats: 0.6 and 0.4 have no exact binary
\* form, so two scores that are equal in exact arithmetic but come from
\* different (importance, urgency) pairs may differ in the last bit.
ScoreAbove(x, y) ==
    \/ FinalScore(x) > FinalScore(y)
    \/ FinalScore(x) = FinalScore(y) /\ x.rounding > y.rounding

\* goal_scores.sort(key=score, reverse=True) keeps equal scores in their
\* original order.
RECURSIVE InsertGoal(_, _)
InsertGoal(s, x) ==
    IF s = <<>> THEN <<x>>
    ELSE IF ScoreAbove(x, Head(s)) THEN <<x>> \o s
    ELSE <<Head(s)>> \o InsertGoal(Tail(s), x)

RECURSIVE SortedGoals(_)
SortedGoals(gs) ==
    IF gs = <<>> THEN <<>>
    ELSE InsertGoal(SortedGoals(SubSeq(gs, 1, Len(gs) - 1)), gs[Len(gs)])

CreateFallbackGoalUnchecked(gs) ==
    IF gs = <<>> THEN Returned(Rec(NULL, "fallback", FallbackConfidence))
    ELSE Returned(Rec(Head(SortedGoals(gs)).id, "fallback",
                      FallbackConfidence))

\* the reasoning parts, in the order the scenarios are tested
RECURSIVE Approaching(_)
Approaching(ds) ==
    IF ds = <<>> THEN 0
    ELSE (IF Head(ds) <= 7 THEN 1 ELSE 0) + Approaching(Tail(ds))

HasProgress(ms) ==
    \E i \in 1..Len(ms) : ms[i].target_value > 0 /\ ms[i].current_value > 0

TargetsNeverMissing(g) == FALSE

\* if not top_goal.targets:
MissingTargets(g) == g.targets = 0

Reasoning(g) ==
    LET parts ==
          (IF /\ g.days_since_update > 7
              /\ g.priority \in {StrPriority("high"), StrPriority("medium")}
           THEN <<"hasn't been updated">> ELSE <<>>)
          \o (IF Approaching(g.deadlines) > 0
              THEN <<"approaching deadlines">>
                   \o (IF \E i \in 1..Len(g.deadlines) : g.deadlines[i] <= 3
                       THEN <<"closest deadline">> ELSE <<>>)
              ELSE <<>>)
          \o (IF Len(g.incomplete_tasks) > 5
              THEN <<"incomplete tasks">> ELSE <<>>)
          \o (IF HasProgress(g.metrics) THEN <<"progress on metrics">> ELSE <<>>)
          \o (IF MissingTargets(g)
              THEN <<"it would benefit from defining specific targets">>
              ELSE <<>>)
          \o (IF g.priority = StrPriority("high")
              THEN <<"it's marked as high priority">> ELSE <<>>)
    IN IF parts = <<>> THEN <<"Based on priority, targets, and deadlines.">>
       ELSE parts

\* One entry of next_steps: ref is the position, in the goal's list, of the
\* target, task or metric the description names (0 for a strategy step).
Step(type, description, ref) ==
    [type |-> type, description |-> description, ref |-> ref]

\* list.sort(key=...)[0]: the first of the elements with the least key
FirstLeast(I, key(_)) ==
    CHOOSE i \in I : \A j \in I : key(i) < key(j) \/ (key(i) = key(j) /\ i <= j)

\* 0 if t.priority == "high" else (1 if t.priority == "medium" else 2)
StepWeight(p) ==
    IF p = StrPriority("high") THEN 0
    ELSE IF p = StrPriority("medium") THEN 1 ELSE 2

\* t.due_date if t.due_date else current_time + timedelta(days=365)
StepDue(d) == IF d = NULL THEN 365 ELSE d

\* the sort key (weight, due) as one number; due dates stay below 1000 days
StepKey(t) == StepWeight(t.priority) * 1000 + StepDue(t.due_date)

\* if metric.target_value and metric.current_value < metric.target_value
BelowTarget(m) == m.target_value # 0 /\ m.current_value < m.target_value

NextSteps(g) ==
    LET near == {i \in 1..Len(g.deadlines) : g.deadlines[i] <= 7}
        open == 1..Len(g.incomplete_tasks)
        low == {i \in 1..Len(g.metrics) : BelowTarget(g.metrics[i])}
        DeadlineOf(i) == g.deadlines[i]
        KeyOf(i) == StepKey(g.incomplete_tasks[i])
        Position(i) == i
        steps ==
          (IF near # {}
           THEN <<Step("target", "Focus on target", FirstLeast(near, DeadlineOf))>>
           ELSE <<>>)
          \o (IF open # {}
              THEN <<Step("task", "Complete task", FirstLeast(open, KeyOf))>>
              ELSE <<>>)
          \o (IF low # {}
              THEN <<Step("metric", "Improve metric", FirstLeast(low, Position))>>
              ELSE <<>>)
    IN IF MissingTargets(g)
       THEN Append(steps, Step("strategy",
                               "Create specific targets for this goal", 0))
       ELSE IF steps = <<>>
       THEN <<Step("strategy", "Create a strategy for this goal", 0)>>
       ELSE steps

CreateFallbackGoalRecommendation(gs) ==
    IF gs = <<>> THEN Raised("ValueError")
    ELSE LET top == Head(SortedGoals(gs))
         IN Returned(Rec(top.id, "fallback", FallbackConfidence)
                     @@ [importance_score |-> ImportanceScore(top),
                         urgency_score |-> UrgencyScore(top),
                         reasoning |-> Reasoning(top),
                         next_steps |-> NextSteps(top)])

\* ------------------------------------------------- recommendation requests
\* One call of an entry point.  pc is the point the call has reached, args
\* the list handed to the get_*_recommendation invocation in progress, calls
\* the number of attempts made on each provider, recs the list
\* get_top_goal_recommendations is building.  inv counts the
\* get_*_recommendation invocations, tried holds the providers the invocation
\* in progress has attempted and failed the providers that have failed
\* (history variables), content the message of the latest OpenRouter answer
\* and tier what became of it.
NewRequest(kind, cands, provider, keys) ==
    [pc |-> "start", kind |-> kind, cands |-> cands, provider |-> provider,
     keys |-> keys, args |-> <<>>, i |-> 0, inv |-> 0, tried |-> {},
     failed |-> {}, calls |-> [p \in Providers |-> 0], recs |-> <<>>,
     content |-> NoContent, tier |-> "none", answer |-> NoAnswer,
     outcome |-> "pending", error |-> "", result |-> NoRec, status |-> 0]

FallbackKinds == {"create_fallback_recommendation",
                  "create_fallback_goal_recommendation"}

GoalKinds == {"recommend_goal", "get_goal_recommendation",
              "create_fallback_goal_recommendation"}

\* The entry points: the two endpoints, called with any provider parameter
\* and any set of configured API keys, and get_goal_recommendation and the
\* two fallback scorers called by themselves.
InitRec ==
    /\ InitTables
    /\ \/ \E n \in 0..MaxCands : \E f \in [1..n -> TaskProfiles] :
             \/ \E p \in ProviderInputs, ks \in SUBSET Providers :
                   rq = NewRequest("recommend_task", TaskList(f), p, ks)
             \/ rq = NewRequest("create_fallback_recommendation",
                                TaskList(f), "none", {})
       \/ \E n \in 0..(top_n + 1) : \E f \in [1..n -> GoalProfiles] :
             \E p \in ProviderInputs, ks \in SUBSET Providers :
                rq = NewRequest("recommend_goal", GoalList(f), p, ks)
       \/ \E n \in 0..MaxCands : \E f \in [1..n -> GoalProfiles] :
             \/ \E p \in ProviderInputs, ks \in SUBSET Providers :
                   rq = NewRequest("get_goal_recommendation", GoalList(f),
                                   p, ks)
             \/ rq = NewRequest("create_fallback_goal_recommendation",
                                GoalList(f), "none", {})

\* The branch get_task_recommendation / get_goal_recommendation takes.
Dispatch(provider, keys) ==
    IF provider = "sambanova" /\ "sambanova" \in keys THEN "sambanova"
    ELSE IF provider = "openrouter" /\ "openrouter" \in keys THEN "openrouter"
    ELSE "fallback"

\* get_*_recommendation(args, provider) is entered.
Enter(q, args) ==
    [q EXCEPT !.args = args, !.inv = @ + 1, !.tried = {},
              !.pc = Dispatch(q.provider, q.keys)]

\* The entry point ends.
Finish(q, r, status) ==
    [q EXCEPT !.pc = "done", !.outcome = r.outcome, !.error = r.error,
              !.result = r.result, !.status = status]

\* get_top_goal_recommendations asks for one recommendation per goal when
\* there are at most top_n goals.
PerGoalCallsAlways(gs) == TRUE

PerGoalCalls(gs) == Len(gs) <= top_n

\* Otherwise it ranks every goal with the fallback's score and keeps the
\* first top_n, with ai_confidence = 0.7 + score / 20.
RankedGoalsUnsorted(gs) == SubSeq(gs, 1, top_n)

RankedGoals(gs) == SubSeq(SortedGoals(gs), 1, top_n)

RankedRecommendations(gs) ==
    [k \in 1..top_n |->
        Rec(RankedGoals(gs)[k].id, "fallback",
            FallbackConfidence + FinalScore(RankedGoals(gs)[k]) \div 2)]

\* The get_*_recommendation invocation in progress ends with r; its caller
\* goes on.
Complete(q, r) ==
    CASE q.kind = "recommend_task" ->
            Finish(q, r, IF r.outcome = "returned" THEN 200 ELSE 500)
      [] q.kind = "get_goal_recommendation" -> Finish(q, r, 0)
      [] q.kind = "recommend_goal" ->
            IF PerGoalCalls(q.cands)
            THEN LET rec == IF r.outcome = "raised"
                            THEN CreateFallbackGoalRecommendation(q.args).result
                            ELSE r.result
                     recs == Append(q.recs, rec)
                 IN  IF q.i < Len(q.cands)
                     THEN Enter([q EXCEPT !.recs = recs, !.i = q.i + 1],
                                <<q.cands[q.i + 1]>>)
                     ELSE Finish([q EXCEPT !.recs = recs],
                                 Returned(Head(recs)), 200)
            ELSE LET recs == IF r.outcome = "raised" THEN q.recs
                             ELSE [q.recs EXCEPT ![1] = r.result]
                 IN  Finish([q EXCEPT !.recs = recs],
                            Returned(Head(recs)), 200)

Attempted(q, p) ==
    [q EXCEPT !.calls[p] = @ + 1, !.tried = @ \cup {p}]

Failed(q, p) == [q EXCEPT !.failed = @ \cup {p}]

store == <<tasks, taskSeq, metrics, metricSeq, goals, goalSeq, owned,
           maxAssigned, last, http, ops, reminders, inflight>>

\* POST /recommend-task
RecommendTask ==
    /\ rq.pc = "start"
    /\ rq.kind = "recommend_task"
    /\ rq' = IF rq.cands = <<>>
             THEN Finish(rq, Raised("HTTPException"), 404)
             ELSE Enter(rq, rq.cands)
    /\ UNCHANGED store

\* POST /recommend-goal, up to the first provider attempt.
RecommendGoal ==
    /\ rq.pc = "start"
    /\ rq.kind = "recommend_goal"
    /\ rq' = IF rq.cands = <<>>
             THEN Finish(rq, Raised("HTTPException"), 404)
             ELSE IF PerGoalCalls(rq.cands)
             THEN Enter([rq EXCEPT !.i = 1], <<rq.cands[1]>>)
             ELSE LET q == [rq EXCEPT !.recs = RankedRecommendations(rq.cands)]
                  IN  IF rq.provider # "none"
                      THEN Enter(q, <<Head(RankedGoals(rq.cands))>>)
                      ELSE Finish(q, Returned(Head(q.recs)), 200)
    /\ UNCHANGED store

\* get_goal_recommendation called by itself.
GetGoalRecommendation ==
    /\ rq.pc = "start"
    /\ rq.kind = "get_goal_recommendation"
    /\ rq' = IF rq.cands = <<>>
             THEN Finish(rq, ReturnedNone, 0)
             ELSE Enter(rq, rq.cands)
    /\ UNCHANGED store

\* get_sambanova_recommendation / get_sambanova_goal_recommendation inside
\* the try: an answer names one of the candidates (the first one when the id
\* it gives matches none); a failure, or an answer without the id (KeyError),
\* enters the except handler.
AttemptSambanovaOn(any) ==
    /\ rq.pc = "sambanova"
    /\ \E o \in ProviderOutcomes, a \in Answers(rq.args, any) :
          IF o = "ok" /\ a # Missing
          THEN \E c \in LLMConfidences :
                  rq' = Complete([Attempted(rq, "sambanova")
                                     EXCEPT !.answer = a],
                                 Returned(Rec(Lookup(rq.args, a, TRUE),
                                              "sambanova", c)))
          ELSE rq' = [Failed(Attempted(rq, "sambanova"), "sambanova")
                         EXCEPT !.pc = IF "openrouter" \in rq.keys
                                       THEN "openrouter_handler"
                                       ELSE "fallback",
                                !.answer = IF o = "ok" THEN a ELSE NoAnswer]
    /\ UNCHANGED store

AttemptSambanova == AttemptSambanovaOn(FALSE)

\* The ids a parse tier can hold: the regular expressions capture digits.
TierAnswers(tier, cands, any) ==
    IF tier = "json" THEN Answers(cands, any)
    ELSE {a \in Answers(cands, any) : a.form \in {"int", "str"}}

\* get_openrouter_recommendation / get_openrouter_goal_recommendation, called
\* inside the try of the openrouter branch (pc "openrouter") or from the
\* except handler of the sambanova branch (pc "openrouter_handler").  The
\* task function re-raises a failure; the goal function catches it and
\* returns create_fallback_goal_recommendation(goals).  An answer with a
\* message ("ok") is parsed tier by tier; the reasoning tier answers 0.8.
\* JSON without the id raises KeyError: the task function goes on to the
\* regular expression, which finds no id either, the goal function to its
\* except handler.
AttemptOpenrouterOn(any) ==
    /\ rq.pc \in {"openrouter", "openrouter_handler"}
    /\ \E o \in ProviderOutcomes, m \in Contents :
          LET content == IF o = "ok" THEN m ELSE NoContent
              tier == IF o = "ok" THEN ParseTier(rq.kind \in GoalKinds, m)
                      ELSE "none"
              q0 == [Attempted(rq, "openrouter") EXCEPT !.content = content,
                                                        !.tier = tier,
                                                        !.answer = NoAnswer]
              strict == tier = "json" /\ rq.kind \notin GoalKinds
              failed(q1) ==
                  LET q == Failed(q1, "openrouter")
                  IN  IF rq.kind \in GoalKinds
                      THEN rq' = Complete(q,
                                   CreateFallbackGoalRecommendation(rq.args))
                      ELSE IF rq.pc = "openrouter"
                      THEN rq' = [q EXCEPT !.pc = "fallback"]
                      ELSE rq' = Complete(q, Raised("Exception"))
          IN
          IF tier \in {"json", "regex", "reasoning"}
          THEN \E a \in TierAnswers(tier, rq.args, any) :
                  IF a = Missing
                  THEN failed([q0 EXCEPT !.answer = a])
                  ELSE \E c \in IF tier = "reasoning" THEN {800}
                                ELSE LLMConfidences :
                          rq' = Complete([q0 EXCEPT !.answer = a],
                                         Returned(Rec(Lookup(rq.args, a, strict),
                                                      "openrouter", c)))
          ELSE failed(q0)
    /\ UNCHANGED store

AttemptOpenrouter == AttemptOpenrouterOn(FALSE)

\* return create_fallback_recommendation(tasks) /
\* return create_fallback_goal_recommendation(goals)
RunFallback ==
    /\ rq.pc = "fallback"
    /\ rq' = Complete(rq, IF rq.kind \in GoalKinds
                          THEN CreateFallbackGoalRecommendation(rq.args)
                          ELSE CreateFallbackRecommendation(rq.args))
    /\ UNCHANGED store

\* The fallback scorers called by themselves.
CallFallbackTask ==
    /\ rq.pc = "start"
    /\ rq.kind = "create_fallback_recommendation"
    /\ rq' = Finish(rq, CreateFallbackRecommendation(rq.cands), 0)
    /\ UNCHANGED store

CallFallbackGoal ==
    /\ rq.pc = "start"
    /\ rq.kind = "create_fallback_goal_recommendation"
    /\ rq' = Finish(rq, CreateFallbackGoalRecommendation(rq.cands), 0)
    /\ UNCHANGED store

\* ------------------------------------------- specification: recommendation
NextRec ==
    \/ RecommendTask
    \/ RecommendGoal
    \/ GetGoalRecommendation
    \/ AttemptSambanova
    \/ AttemptOpenrouter
    \/ RunFallback
    \/ CallFallbackTask
    \/ CallFallbackGoal

SpecRec == InitRec /\ [][NextRec]_vars

\* ------------------------------------------------ specification: the ids
\* get_task_recommendation and get_goal_recommendation called with one to
\* MaxCands candidates, the providers answering with any id or with none.
IdTaskProfiles == {StrPriority("high"), IntPriority(2)} \X {NULL}

IdGoalProfiles == {StrPriority("high"), StrPriority("low")} \X {0}

InitIds ==
    /\ InitTables
    /\ \E n \in 1..MaxCands, p \in ProviderInputs, ks \in SUBSET Providers :
          \/ \E f \in [1..n -> IdTaskProfiles] :
                rq = NewRequest("recommend_task", TaskList(f), p, ks)
          \/ \E f \in [1..n -> IdGoalProfiles] :
                rq = NewRequest("get_goal_recommendation", GoalList(f), p, ks)

NextIds ==
    \/ RecommendTask
    \/ GetGoalRecommendation
    \/ AttemptSambanovaOn(TRUE)
    \/ AttemptOpenrouterOn(TRUE)
    \/ RunFallback

SpecIds == InitIds /\ [][NextIds]_vars

\* ---------------------------------------------------- specification: score
\* create_fallback_goal_recommendation applied to one or two goals that
\* differ in everything the scorer reads.
ScoreProfiles ==
    StrPriorities
    \X {0, 8, 20}
    \X {<<0, <<>>>>, <<1, <<2>>>>, <<2, <<2, 5>>>>}
    \X {<<>>, <<[target_value |-> 200, current_value |-> 10]>>,
        <<[target_value |-> 10, current_value |-> 5]>>}
    \X {0, 6}

ScoredGoal(i, f, r) ==
    [GoalCand(i, f[1], f[2]) EXCEPT !.targets = f[3][1],
                                    !.deadlines = f[3][2],
                                    !.metrics = f[4],
                                    !.incomplete_tasks =
                                        [k \in 1..f[5] |->
                                            GoalTask(IntPriority(2), NULL)],
                                    !.rounding = r]

\* the same importance and urgency give the same float
SameRounding(gs) ==
    \A i, j \in 1..Len(gs) :
        (/\ ImportanceScore(gs[i]) = ImportanceScore(gs[j])
         /\ UrgencyScore(gs[i]) = UrgencyScore(gs[j]))
            => gs[i].rounding = gs[j].rounding

InitScore ==
    /\ InitTables
    /\ \E n \in {1, 2} :
          \E f \in [1..n -> ScoreProfiles], r \in [1..n -> {0, 1}] :
             /\ SameRounding([i \in 1..n |-> ScoredGoal(i, f[i], r[i])])
             /\ rq = NewRequest("create_fallback_goal_recommendation",
                                [i \in 1..n |-> ScoredGoal(i, f[i], r[i])],
                                "none", {})

SpecScore == InitScore /\ [][CallFallbackGoal]_vars

\* ---------------------------------------------------- specification: steps
\* create_fallback_goal_recommendation called with one goal: its targets
\* (how many, and the deadlines of those that have one), its incomplete
\* tasks, as strings (the tests' tasks) or as the integers the tasks table
\* stores, and its metrics.
StepTargets ==
    {<<0, <<>>>>, <<1, <<>>>>, <<1, <<10>>>>, <<2, <<5, 2>>>>, <<2, <<2, 2>>>>,
     <<2, <<10, 5>>>>}

StepTaskKinds(ps) == {GoalTask(p, d) : p \in ps, d \in DueDates}

StepTaskLists ==
    UNION {[1..n -> StepTaskKinds({StrPriority("high"), StrPriority("low")})]
              \cup [1..n -> StepTaskKinds({IntPriority(PRIORITY_HIGH),
                                           IntPriority(PRIORITY_LOW)})] :
           n \in 0..2}

StepMetricKinds ==
    {[target_value |-> 0, current_value |-> 0],
     [target_value |-> 10, current_value |-> 5],
     [target_value |-> 10, current_value |-> 10]}

StepMetricLists == UNION {[1..n -> StepMetricKinds] : n \in 0..2}

InitSteps ==
    /\ InitTables
    /\ \E tg \in StepTargets, ts \in StepTaskLists, ms \in StepMetricLists :
          rq = NewRequest("create_fallback_goal_recommendation",
                          <<[GoalCand(1, StrPriority("medium"), 0)
                                EXCEPT !.targets = tg[1],
                                       !.deadlines = tg[2],
                                       !.incomplete_tasks = ts,
                                       !.metrics = ms]>>,
                          "none", {})

SpecSteps == InitSteps /\ [][CallFallbackGoal]_vars

\* ------------------------------------------- the endpoints over the tables
\* db.query(Task).all() and db.query(Goal).all(): every row of the table, as
\* the recommender reads it.  A task row holds the column default priority
\* PRIORITY_MEDIUM and no due date, a goal row no priority and a fresh
\* updated_at; user_id is carried along with the row.
TaskRow(t) ==
    TaskCand(t, IntPriority(PRIORITY_MEDIUM), NULL)
        @@ [user_id |-> tasks[t].user_id]

GoalRow(g) == GoalCand(g, NoPriority, 0) @@ [user_id |-> goals[g].user_id]

RECURSIVE TaskRows(_)
TaskRows(n) ==
    IF n = 0 THEN <<>>
    ELSE TaskRows(n - 1) \o (IF tasks[n].exists THEN <<TaskRow(n)>> ELSE <<>>)

RECURSIVE GoalRows(_)
GoalRows(n) ==
    IF n = 0 THEN <<>>
    ELSE GoalRows(n - 1) \o (IF goals[n].exists THEN <<GoalRow(n)>> ELSE <<>>)

\* POST /recommend-task and POST /recommend-goal: the query that opens the
\* handler
QueryTasks(p, ks) ==
    /\ rq.pc = "idle"
    /\ rq' = NewRequest("recommend_task", TaskRows(MaxTasks), p, ks)
    /\ UNCHANGED store

QueryGoals(p, ks) ==
    /\ rq.pc = "idle"
    /\ rq' = NewRequest("recommend_goal", GoalRows(MaxGoals), p, ks)
    /\ UNCHANGED store

\* ---------------------------------------------------- specification: scope
\* Rows of two users are written (up to MaxOps writes); GET /tasks is
\* answered as user_id=1; then one recommendation request is made, with the
\* openrouter key configured or not.
ScopeWrites ==
    \/ /\ \/ \E u \in Users : CreateTask(u)
          \/ \E u \in Users, id \in TaskIds : DeleteTask(u, id)
       /\ UNCHANGED <<goals, goalSeq, metricSeq, owned>>
    \/ \E u \in Users : CreateGoal(u, NULL)
    \/ \E u \in Users, g \in GoalIds : DeleteGoal(u, g)

NextScope ==
    \/ /\ rq.pc = "idle"
       /\ ops < MaxOps
       /\ ops' = ops + 1
       /\ ScopeWrites
       /\ UNCHANGED <<http, rq, reminders, inflight>>
    \/ /\ rq.pc = "idle"
       /\ GetTasks(RouterUser)
       /\ http' = Reply("get_tasks", <<>>, 200, GetTasksBody(RouterUser))
       /\ UNCHANGED <<goals, goalSeq, metricSeq, owned, ops, rq, reminders, inflight>>
    \/ \E p \in {"openrouter", "none"}, ks \in SUBSET {"openrouter"} :
          QueryTasks(p, ks)
    \/ \E p \in {"openrouter", "none"}, ks \in SUBSET {"openrouter"} :
          QueryGoals(p, ks)
    \/ RecommendTask
    \/ RecommendGoal
    \/ AttemptOpenrouter
    \/ RunFallback

SpecScope == InitStore /\ [][NextScope]_vars

\* ================================================================== claims

\* C1: after any sequence of update_task calls that record or remove
\* contributions, every metric's stored current_value equals the sum of the
\* value fields of the entries of its contributions_list.
C1_CurrentValueIsLedgerSum ==
    \A m \in MetricIds :
        metrics[m].current_value =
            SumValues(JsonLoads(metrics[m].contributions_list))

\* Two contributions of different value are on one ledger.
C1_Witness ==
    /\ last = Response("update_task", 200)
    /\ \E m \in MetricIds :
          /\ Len(JsonLoads(metrics[m].contributions_list)) = 2
          /\ metrics[m].current_value = 3

CompletionFieldsAgree ==
    \A t \in TaskIds :
        tasks[t].exists =>
            /\ tasks[t].completed <=> tasks[t].completion_time # NULL
            /\ tasks[t].completed <=> tasks[t].completion_order # NULL

C4_CompletionFieldsFollowCompleted ==
    /\ []CompletionFieldsAgree
    /\ [][\A t \in TaskIds :
             (tasks[t].completed /\ tasks'[t].completed)
                => /\ tasks'[t].completion_order = tasks[t].completion_order
                   /\ tasks'[t].completion_time = tasks[t].completion_time]_vars

\* A task was completed, un-completed and completed again: the user's highest
\* assigned order is above the only order now held.
C4_Witness ==
    \E t \in TaskIds :
        /\ tasks[t].exists /\ tasks[t].completed
        /\ tasks[t].completion_order = 1
        /\ \E o \in TaskIds : o # t /\ tasks[o].exists /\ ~tasks[o].completed
                              /\ tasks[o].user_id = tasks[t].user_id
        /\ maxAssigned[tasks[t].user_id] = 2

\* C2 (as stated): an update_goal that puts a goal under itself or under one
\* of its descendants is refused and changes nothing, so the parent relation
\* of the goals never holds a cycle.
GoalTreeAcyclic == \A g \in GoalIds : goals[g].exists => g \notin Descendants(g)

C2_CyclicParentRejected ==
    /\ []GoalTreeAcyclic
    /\ [][\A g \in GoalIds :
             (/\ goals[g].exists
              /\ last'.op = "update_goal"
              /\ goals'[g].parent_id # goals[g].parent_id)
                => /\ goals'[g].parent_id # g
                   /\ goals'[g].parent_id \notin Descendants(g)]_vars

\* C10: running the repair script is idempotent: from every state, a second
\* run leaves the ledgers exactly as the first run left them, so a task whose
\* entry is on its metric's ledger gets no second entry.
C10_FixIsIdempotent ==
    FixedLedgers(FixedLedgers(metrics)) = FixedLedgers(metrics)

\* The script has just appended an entry: only the script records a
\* contribution of value 0.
C10_Witness ==
    /\ last = Response("fix_metric_contributions", 200)
    /\ \E m \in MetricIds :
          \E i \in 1..Len(JsonLoads(metrics[m].contributions_list)) :
              JsonLoads(metrics[m].contributions_list)[i].value = 0

\* C5: given an empty candidate list, the task fallback scorer and the goal
\* fallback scorer both end by raising an error; neither returns a
\* recommendation.
C5_EmptyListRaises ==
    (rq.pc = "done" /\ rq.kind \in FallbackKinds /\ rq.cands = <<>>)
        => (rq.outcome = "raised" /\ rq.result = NoRec)

C5_Witness ==
    /\ rq.pc = "done"
    /\ rq.kind = "create_fallback_goal_recommendation"
    /\ rq.cands = <<>>
    /\ rq.error = "ValueError"

\* C6: get_task_recommendation and get_goal_recommendation, called with a
\* non-empty list (here: of candidates whose priority is one of the three
\* strings), return a recommendation whenever a provider has failed; the
\* failure is never raised to the caller.
C6_ProviderFailureNeverSurfaces ==
    (/\ rq.pc = "done"
     /\ rq.kind \in {"recommend_task", "get_goal_recommendation"}
     /\ rq.cands # <<>>
     /\ \A i \in 1..Len(rq.cands) : rq.cands[i].priority \in StrPriorities
     /\ rq.failed # {})
        => rq.outcome = "returned"

\* C7 (as stated): within one recommend-task or recommend-goal request no
\* provider is attempted more than once.
C7_EachProviderOncePerRequest ==
    rq.kind \in {"recommend_task", "recommend_goal"}
        => \A p \in Providers : rq.calls[p] <= 1

\* C7 (amended): a provider is attempted at most once per
\* get_task_recommendation / get_goal_recommendation invocation.  A
\* recommend-task request makes one invocation, a recommend-goal request
\* over more than top_n goals at most one, and a recommend-goal request over
\* n <= top_n goals one per goal, so that a provider is attempted at most n
\* times in it.
C7_InvocationsBounded ==
    /\ rq.inv <= (IF rq.kind = "recommend_goal" /\ Len(rq.cands) <= top_n
                  THEN Len(rq.cands) ELSE 1)
    /\ \A p \in Providers : rq.calls[p] <= rq.inv

C7_EachProviderOncePerInvocation ==
    /\ []C7_InvocationsBounded
    /\ [][\A p \in Providers :
             rq'.calls[p] > rq.calls[p]
                 => (p \notin rq.tried /\ rq'.calls[p] = rq.calls[p] + 1)]_vars

C7_Witness ==
    /\ rq.pc = "done"
    /\ rq.kind = "recommend_goal"
    /\ Len(rq.cands) = 2
    /\ rq.calls["openrouter"] = 2

\* C8: when create_fallback_recommendation returns, the task it returns has
\* the lowest key (weight of the priority, then due date with a missing due
\* date last) of the list, and no task before it in the list has the same
\* key.
C8_Weight(t) ==
    IF t.priority = StrPriority("high") THEN 0
    ELSE IF t.priority = StrPriority("medium") THEN 1 ELSE 2

C8_KeyBefore(a, b) ==
    \/ C8_Weight(a) < C8_Weight(b)
    \/ /\ C8_Weight(a) = C8_Weight(b)
       /\ a.due_date # NULL
       /\ (b.due_date = NULL \/ a.due_date < b.due_date)

C8_LowestKeyFirstInInputOrder ==
    (/\ rq.pc = "done"
     /\ rq.kind \in {"create_fallback_recommendation", "recommend_task"}
     /\ rq.outcome = "returned"
     /\ rq.result.source = "fallback")
        => /\ rq.result.id \in 1..Len(rq.cands)
           /\ \A j \in 1..Len(rq.cands) :
                 /\ ~C8_KeyBefore(rq.cands[j], rq.cands[rq.result.id])
                 /\ j < rq.result.id
                       => C8_KeyBefore(rq.cands[rq.result.id], rq.cands[j])

C8_Witness ==
    /\ rq.pc = "done"
    /\ rq.kind = "create_fallback_recommendation"
    /\ rq.cands = <<TaskCand(1, StrPriority("low"), 1),
                    TaskCand(2, StrPriority("high"), 2)>>
    /\ rq.result = Rec(2, "fallback", FallbackConfidence)

\* C9: for every non-empty candidate list, whatever the priorities in it, the
\* task fallback scorer and the goal fallback scorer return a recommendation.
C9_FallbackNeverRaises ==
    (rq.pc = "done" /\ rq.kind \in FallbackKinds /\ rq.cands # <<>>)
        => rq.outcome = "returned"

\* The stored entities: every table, without the responses.
Tables == <<tasks, taskSeq, metrics, metricSeq, goals, goalSeq, owned>>

ReadOps == {"read_goal", "get_goals"}

C12_MissingTaskIs404 ==
    [][\A id \in TaskIds :
          (/\ http'.op \in TaskRequests
           /\ http'.req = <<id>>
           /\ ~TaskFound(id, RouterUser))
             => /\ http'.status = 404
                /\ Tables' = Tables]_vars

\* C13 (as stated): every read is scoped to the user it is made for.  The
\* rows GET /tasks sends and the rows a recommend-task or recommend-goal
\* request reads and recommends from are owned by that user, and a write that
\* leaves the user's own rows as they are leaves what these reads are
\* computed from as it is.
OwnRows(u) ==
    <<[t \in TaskIds |-> IF tasks[t].user_id = u THEN tasks[t] ELSE NoTask],
      [g \in GoalIds |-> IF goals[g].user_id = u THEN goals[g] ELSE NoGoal]>>

C13_ReadsScopedToUser ==
    /\ [](/\ http.op = "get_tasks" =>
                \A x \in http.body : x.user_id = RouterUser
          /\ rq.pc # "idle" =>
                \A i \in 1..Len(rq.cands) : rq.cands[i].user_id = RouterUser)
    /\ [][OwnRows(RouterUser)' = OwnRows(RouterUser) =>
             /\ GetTasksBody(RouterUser)' = GetTasksBody(RouterUser)
             /\ TaskRows(MaxTasks)' = TaskRows(MaxTasks)
             /\ GoalRows(MaxGoals)' = GoalRows(MaxGoals)]_vars

\* C14: after delete_goal(G) succeeds, G, every descendant subgoal of G and
\* every task, metric, note, situation (with its phases) and conversation
\* owned by any of them are absent from the store (no target can be created),
\* and no remaining record references a deleted goal or a deleted metric.
C14_DeleteGoalCascades ==
    [][(last'.op = "delete_goal" /\ last'.status = 200) =>
          LET D == {g \in GoalIds : goals[g].exists /\ ~goals'[g].exists}
          IN /\ D # {}
             /\ \A g \in D : Descendants(g) \subseteq D
             /\ \A t \in TaskIds :
                   (tasks[t].exists /\ tasks[t].goal_id \in D)
                      => ~tasks'[t].exists
             /\ \A m \in MetricIds :
                   (metrics[m].exists /\ metrics[m].goal_id \in D)
                      => ~metrics'[m].exists
             /\ \A g \in GoalIds : goals'[g].exists => goals'[g].parent_id \notin D
             /\ \A t \in TaskIds : tasks'[t].exists => tasks'[t].goal_id \notin D
             /\ \A m \in MetricIds :
                   metrics'[m].exists => metrics'[m].goal_id \notin D
             /\ \A k \in ChildKinds : owned'[k] \cap D = {}
             /\ \A t \in TaskIds :
                   (tasks'[t].exists /\ tasks'[t].metric_id # NULL)
                      => metrics'[tasks'[t].metric_id].exists]_vars

\* a delete has taken a goal with a subgoal, a task and a note
C14_Witness ==
    /\ last.op = "delete_goal"
    /\ last.status = 200
    /\ Cardinality(last.removed.goals) >= 2
    /\ last.removed.tasks # {}
    /\ last.removed.kinds # {}
    /\ \A g \in last.removed.goals : ~goals[g].exists

\* the goal the fallback has recommended
Recommended == rq.cands[rq.result.id]

InSeq(x, seq) == \E i \in 1..Len(seq) : seq[i] = x

\* C15: for a top-scoring goal with priority high, not updated for 20 days
\* and without targets, the fallback's reasoning holds the inactivity clause
\* and the missing-targets clause, and its next steps hold "Create specific
\* targets for this goal".
C15_InactiveGoalWithoutTargets ==
    (/\ rq.pc = "done"
     /\ rq.outcome = "returned"
     /\ Recommended.priority = StrPriority("high")
     /\ Recommended.days_since_update = 20
     /\ Recommended.targets = 0)
        => /\ InSeq("hasn't been updated", rq.result.reasoning)
           /\ InSeq("it would benefit from defining specific targets",
                    rq.result.reasoning)
           /\ \E i \in 1..Len(rq.result.next_steps) :
                 rq.result.next_steps[i].description
                    = "Create specific targets for this goal"

\* such a goal has been recommended ahead of another one
C15_Witness ==
    /\ rq.pc = "done"
    /\ rq.outcome = "returned"
    /\ Len(rq.cands) = 2
    /\ rq.result.id = 2
    /\ Recommended.priority = StrPriority("high")
    /\ Recommended.days_since_update = 20
    /\ Recommended.targets = 0
    /\ Len(rq.result.reasoning) >= 3

\* The score as the claim words it, in hundredths.
C20_Count(seq, P(_)) == Cardinality({i \in 1..Len(seq) : P(seq[i])})

C20_Importance(g) ==
    LET Under25(m) == m.current_value * 4 < m.target_value
        Over100(m) == m.target_value > 100
    IN (CASE g.priority = StrPriority("high") -> 80
          [] g.priority = StrPriority("medium") -> 50
          [] g.priority = StrPriority("low") -> 30)
       + 5 * C20_Count(g.metrics, Under25)
       + 5 * C20_Count(g.metrics, Over100)
       + (IF Len(g.incomplete_tasks) > 5 THEN 10 ELSE 0)

C20_Urgency(g) ==
    LET Within3(d) == d <= 3
        Within7(d) == d > 3 /\ d <= 7
    IN 50 + 20 * C20_Count(g.deadlines, Within3)
          + 10 * C20_Count(g.deadlines, Within7)
          + (IF g.days_since_update > 14 THEN 15
             ELSE IF g.days_since_update > 7 THEN 8 ELSE 0)

C20_FinalScore(g) == C20_Importance(g) * 6 + C20_Urgency(g) * 4

\* C20 (as stated): create_fallback_goal_recommendation recommends the goal
\* with the highest final_score = importance_score*0.6 + urgency_score*0.4,
\* built from the priority, the metrics, the incomplete tasks, the target
\* deadlines and the age of the last update as the claim lists them; among
\* goals with equal final_score the first in input order is recommended.
C20_HighestScoreFirstInInputOrder ==
    (rq.pc = "done" /\ rq.outcome = "returned")
        => /\ rq.result.importance_score = C20_Importance(Recommended)
           /\ rq.result.urgency_score = C20_Urgency(Recommended)
           /\ \A j \in 1..Len(rq.cands) :
                 /\ C20_FinalScore(rq.cands[j]) <= C20_FinalScore(Recommended)
                 /\ j < rq.result.id =>
                       C20_FinalScore(rq.cands[j]) < C20_FinalScore(Recommended)

\* C16: when get_top_goal_recommendations receives more goals than top_n, it
\* returns exactly top_n recommendations, for pairwise distinct goals, in
\* descending order of the goals' fallback final_score; only the first entry
\* may come from an LLM call, and every other entry is the fallback-derived
\* recommendation with ai_confidence = 0.7 + score/20.
C16_TopNRankedByFallbackScore ==
    (/\ rq.pc = "done"
     /\ rq.kind = "recommend_goal"
     /\ Len(rq.cands) > top_n)
        => /\ rq.status = 200
           /\ Len(rq.recs) = top_n
           /\ \A j, k \in 1..top_n : j # k => rq.recs[j].id # rq.recs[k].id
           /\ \A k \in 1..(top_n - 1) :
                 FinalScore(rq.cands[rq.recs[k].id])
                    >= FinalScore(rq.cands[rq.recs[k + 1].id])
           /\ \A g \in 1..Len(rq.cands) :
                 (\A k \in 1..top_n : rq.recs[k].id # g)
                    => FinalScore(rq.cands[g])
                          <= FinalScore(rq.cands[rq.recs[top_n].id])
           /\ \A k \in 2..top_n :
                 /\ rq.recs[k].source = "fallback"
                 /\ rq.recs[k].confidence =
                       FallbackConfidence
                       + FinalScore(rq.cands[rq.recs[k].id]) \div 2

\* four goals were ranked, the best of them was not the first in the list and
\* its recommendation was replaced by the LLM's
C16_Witness ==
    /\ rq.pc = "done"
    /\ rq.kind = "recommend_goal"
    /\ Len(rq.cands) = top_n + 1
    /\ Len(rq.recs) = top_n
    /\ rq.recs[1].source = "openrouter"
    /\ rq.recs[1].id = top_n + 1
    /\ FinalScore(rq.cands[rq.recs[2].id]) > FinalScore(rq.cands[rq.recs[3].id])

Ledger(m) == metrics[m].contributions_list.items

NoDuplicateTask ==
    \A m \in MetricIds : \A i, j \in 1..Len(Ledger(m)) :
       i # j => Ledger(m)[i].task_id # Ledger(m)[j].task_id

\* an entry of metric m is left behind when its task is no longer a completed
\* task that contributes to m
LeftBehind(m, id) ==
    ~(/\ tasks[id].exists
      /\ tasks[id].completion_time # NULL
      /\ tasks[id].metric_id = m
      /\ Contributes(tasks[id]))

NoLeftBehind ==
    \A m \in MetricIds : \A i \in 1..Len(Ledger(m)) :
       ~LeftBehind(m, Ledger(m)[i].task_id)

\* the step deletes a completed task, or changes the metric_id or the
\* contribution_value of a task that was completed when the call arrived
TouchesCompleted ==
    \E id \in TaskIds :
       /\ tasks[id].exists
       /\ tasks[id].completion_time # NULL
       /\ \/ ~tasks'[id].exists
          \/ tasks'[id].metric_id # tasks[id].metric_id
          \/ tasks'[id].contribution_value # tasks[id].contribution_value

EndsWithFallback ==
    IF rq.kind = "recommend_goal"
    THEN /\ rq.status = 200
         /\ rq.recs # <<>>
         /\ rq.recs[IF PerGoalCalls(rq.cands) THEN Len(rq.recs) ELSE 1].source
               = "fallback"
    ELSE /\ rq.outcome = "returned"
         /\ rq.result.source = "fallback"

\* C19: an OpenRouter answer is handled in three ordered tiers: the JSON
\* parse makes the recommendation whenever the content is valid JSON, the
\* regex extraction only when it is not, and when the content is neither
\* valid JSON nor matched by the regex the request ends with the
\* deterministic fallback recommendation.
C19_ThreeOrderedTiers ==
    rq.content # NoContent
       => /\ ValidJson(rq.content) <=> rq.tier = "json"
          /\ (~ValidJson(rq.content) /\ RegexMatches(rq.content))
                <=> rq.tier = "regex"
          /\ (/\ ~ValidJson(rq.content)
              /\ ~RegexMatches(rq.content)
              /\ rq.pc = "done")
                => EndsWithFallback

\* what a task's priority means: 0 for high, 1 for medium, 2 for low, as a
\* string or as the integer the tasks table stores
C21_Rank(p) ==
    IF p \in {StrPriority("high"), IntPriority(PRIORITY_HIGH)} THEN 0
    ELSE IF p \in {StrPriority("medium"), IntPriority(PRIORITY_MEDIUM)} THEN 1
    ELSE 2

C21_Due(d) == IF d = NULL THEN 365 ELSE d

C21_StepsOf(type) ==
    {i \in 1..Len(rq.result.next_steps) : rq.result.next_steps[i].type = type}

C21_Order(type) ==
    CASE type = "target" -> 1 [] type = "task" -> 2 [] type = "metric" -> 3
      [] OTHER -> 4

\* C21: the next_steps of a fallback goal recommendation is never empty and
\* lists, in this order and at most once each: the approaching-deadline
\* target with the nearest deadline, the highest-priority soonest-due
\* incomplete task, the first metric below its target, then "create targets"
\* when the goal has no targets, otherwise "create a strategy" only when
\* nothing else applied.
C21_NextStepsInFixedOrder ==
    (rq.pc = "done" /\ rq.outcome = "returned")
       => LET g == Recommended
              steps == rq.result.next_steps
              near == {i \in 1..Len(g.deadlines) : g.deadlines[i] <= 7}
              low == {i \in 1..Len(g.metrics) :
                         /\ g.metrics[i].target_value # 0
                         /\ g.metrics[i].current_value < g.metrics[i].target_value}
          IN
          /\ steps # <<>>
          /\ \A i, j \in 1..Len(steps) :
                i < j => C21_Order(steps[i].type) < C21_Order(steps[j].type)
          /\ (C21_StepsOf("target") # {}) <=> (near # {})
          /\ \A i \in C21_StepsOf("target") :
                /\ steps[i].ref \in near
                /\ \A k \in near : g.deadlines[steps[i].ref] <= g.deadlines[k]
          /\ (C21_StepsOf("task") # {}) <=> (g.incomplete_tasks # <<>>)
          /\ \A i \in C21_StepsOf("task") :
                LET t == g.incomplete_tasks[steps[i].ref]
                IN \A k \in 1..Len(g.incomplete_tasks) :
                      LET u == g.incomplete_tasks[k]
                      IN \/ C21_Rank(t.priority) < C21_Rank(u.priority)
                         \/ /\ C21_Rank(t.priority) = C21_Rank(u.priority)
                            /\ C21_Due(t.due_date) <= C21_Due(u.due_date)
          /\ (C21_StepsOf("metric") # {}) <=> (low # {})
          /\ \A i \in C21_StepsOf("metric") :
                steps[i].ref \in low /\ \A k \in low : steps[i].ref <= k
          /\ \A i \in C21_StepsOf("strategy") :
                steps[i].description =
                   IF g.targets = 0
                   THEN "Create specific targets for this goal"
                   ELSE "Create a strategy for this goal"
          /\ (C21_StepsOf("strategy") # {})
                <=> \/ g.targets = 0
                    \/ /\ near = {}
                       /\ g.incomplete_tasks = <<>>
                       /\ low = {}

\* the goal read by the latest request and the body sent for it
C22_Goal == http.req[2]

C22_Body == http.body[1]

C22_Found(b) ==
    CASE b = "tasks" -> TasksOf(C22_Goal)
      [] b = "metrics" -> MetricsOf(C22_Goal)
      [] b = "subgoals" -> Children({C22_Goal})

C22_Sent(b) ==
    CASE b = "tasks" -> C22_Body.tasks
      [] b = "metrics" -> {m.id : m \in C22_Body.metrics}
      [] b = "subgoals" -> C22_Body.subgoals

C22_Failed(b) ==
    /\ last.fault.branch = b
    /\ last.fault.kind = "query" \/ C22_Found(b) # {}

C22_ReadWithFault ==
    /\ last.op = "read_goal"
    /\ goals[C22_Goal].exists
    /\ goals[C22_Goal].user_id = http.req[1]

C23_Completes(id, mid, cv) ==
    LET t1 == ApplyFields(tasks[id], "true", mid, cv)
    IN /\ TaskFound(id, RouterUser)
       /\ Completing("true", t1)
       /\ Credits(t1)
       /\ metrics[t1.metric_id].contributions_list \in MalformedLedgers
       /\ UpdateTask(RouterUser, id, "true", mid, cv)

C23_NewEntryOnly(id, mid, cv) ==
    LET t1 == ApplyFields(tasks[id], "true", mid, cv)
        m == metrics'[t1.metric_id]
    IN /\ last'.status = 200
       /\ m.contributions_list =
             JsonDumps(<<[value |-> t1.contribution_value, task_id |-> id]>>)
       /\ m.current_value = t1.contribution_value

\* C23: when a metric's existing ledger data is malformed, completing a
\* contributing task succeeds and leaves the ledger holding exactly the new
\* entry, with current_value equal to that entry's value.
C23_MalformedLedgerCountsAsEmpty ==
    [][\A id \in TaskIds, mid \in MetricIdInputs, cv \in ValueInputs :
          C23_Completes(id, mid, cv) => C23_NewEntryOnly(id, mid, cv)]_vars

\* C24: after any sequence of create_reminder, update_reminder and
\* delete_reminder calls, a task's has_reminders flag is true exactly when at
\* least one stored reminder references that task.
C24_FlagIffReminderExists ==
    \A t \in TaskIds :
        tasks[t].exists =>
           (tasks[t].has_reminders <=>
               \E r \in ReminderIds : /\ reminders[r].exists
                                      /\ reminders[r].task_id = t)

\* C25: create_situation with phases is committed atomically: when the
\* request fails, nothing of it remains persisted, so the store holds the
\* situation together with its phases or neither.
C25_CreateSituationIsAtomic ==
    [][(last'.op = "create_situation" /\ last'.status = 500)
          => owned' = owned]_vars

C26_Entries(m, t) ==
    {i \in 1..Len(Ledger(m)) : Ledger(m)[i].task_id = t}

\* C26: in every state reachable through update_task, metric M's
\* contributions_list has an entry for task T exactly when T is completed,
\* T.metric_id = M and T has a non-null, non-zero contribution_value, and
\* that entry's value equals T.contribution_value.
C26_LedgerMirrorsCompletedTasks ==
    \A m \in MetricIds, t \in TaskIds :
        tasks[t].exists =>
           /\ C26_Entries(m, t) # {}
                 <=> /\ tasks[t].completed
                     /\ tasks[t].metric_id = m
                     /\ Contributes(tasks[t])
           /\ \A i \in C26_Entries(m, t) :
                 Ledger(m)[i].value = tasks[t].contribution_value

\* C27: when two requests of the same user complete two different tasks
\* concurrently, the two tasks end up with different completion_order
\* values: no two completed tasks of one user hold the same order.
C27_ConcurrentOrdersDiffer ==
    \A a, b \in TaskIds :
        (/\ a # b
         /\ tasks[a].exists /\ tasks[b].exists
         /\ tasks[a].user_id = tasks[b].user_id
         /\ tasks[a].completion_order # NULL
         /\ tasks[b].completion_order # NULL)
            => tasks[a].completion_order # tasks[b].completion_order

C28_Credited(m) ==
    {t \in TaskIds : /\ tasks[t].exists
                     /\ tasks[t].completed
                     /\ tasks[t].metric_id = m
                     /\ Contributes(tasks[t])}

RECURSIVE C28_Sum(_)
C28_Sum(S) ==
    IF S = {} THEN 0
    ELSE LET t == CHOOSE x \in S : TRUE
         IN tasks[t].contribution_value + C28_Sum(S \ {t})

\* C28: when two requests concurrently complete two different tasks that
\* contribute to the same metric, no contribution is lost: once both have
\* committed, the metric's ledger contains both entries and current_value
\* is the sum of both values.  (Two requests that complete the same task
\* leave that task twice in the ledger; those states are left aside.)
C28_NoContributionLost ==
    (NoDuplicateTask /\ \A r \in Requests : inflight[r] = Idle)
       => \A m \in MetricIds :
             /\ \A t \in C28_Credited(m) : C26_Entries(m, t) # {}
             /\ C28_Credited(m) # {}
                   => metrics[m].current_value = C28_Sum(C28_Credited(m))

\* ai_confidence in thousandths lies between 0.0 and 1.0
C30_InRange(c) == 0 <= c /\ c <= 1000

\* C30: every ai_confidence produced by the deterministic paths lies in the
\* range 0.0 to 1.0: the fallback recommendations of the two scorers and the
\* ranked recommendations with ai_confidence = 0.7 + score/20.
C30_DeterministicConfidenceInRange ==
    rq.pc = "done"
       => /\ \A k \in 1..Len(rq.recs) :
                rq.recs[k].source = "fallback"
                   => C30_InRange(rq.recs[k].confidence)
          /\ (rq.outcome = "returned" /\ rq.result.source = "fallback")
                => C30_InRange(rq.result.confidence)

\* C29: the entity a recommendation returns is one of the candidates it was
\* given, whatever id the provider's answer holds (unknown, malformed or
\* missing).
C29_ReturnedEntityIsCandidate ==
    (rq.pc = "done" /\ rq.outcome = "returned")
       => \E k \in 1..Len(rq.cands) : rq.result.id = rq.cands[k].id

\* a provider answered with an id that no candidate has, and the first of
\* two candidates was returned as that provider's recommendation
C29_Witness ==
    /\ rq.pc = "done"
    /\ rq.outcome = "returned"
    /\ rq.answer = Answer("int", UnknownId)
    /\ rq.result.source \in Providers
    /\ Len(rq.cands) = 2
    /\ rq.result.id = rq.cands[1].id
====
